---- MODULE Spec2Model ----
(***************************************************************************)
(* Model of the heterogeneous Docker backend of docker_checker:            *)
(*   app/docker_service.py  (DockerService, format_container)              *)
(*   app/routes/dashboard.py (HTTP routes, log websocket, status poller)   *)
(*                                                                         *)
(* One request is in progress at a time (req); each request kind is a      *)
(* small state machine whose steps are the awaits of the handler.  Reader  *)
(* threads of the log streamer are daemon threads and keep running beside  *)
(* whatever request follows.                                               *)
(***************************************************************************)
EXTENDS Integers, Sequences, FiniteSets, TLC

\* ------------------------------------------------------------------ bounds
MaxCalls == 2      \* requests served in one behaviour
MaxChunks == 2     \* chunks a log source emits before the model stops it
MaxTicks == 2      \* poll cycles of the status poller
MaxLines == 3      \* output lines of a remote listing
MaxHosts == 2      \* hosts in the database
MaxDays == 2       \* whole days a container has been up
MaxSegs == 3       \* segments of a label string
MaxLogLines == 2   \* lines of a fetched container log
MaxPorts == 2      \* container ports of a port map

\* ------------------------------------------------------------- python values
\* A Python value is tagged with its type; a str is a sequence of characters.
None == [t |-> "null", v |-> <<>>]
Str(s) == [t |-> "str", v |-> s]
List(s) == [t |-> "list", v |-> s]

IsNone(x) == x.t = "null"

\* dict.get(key) / dict.get(key, default)
Get(d, k) == IF k \in DOMAIN d THEN d[k] ELSE None
GetD(d, k, dflt) == IF k \in DOMAIN d THEN d[k] ELSE dflt

Dict(d) == [t |-> "dict", v |-> d]
\* a str holding an ISO-8601 timestamp of the instant `age` seconds before now
IsoAt(age) == [t |-> "str", v |-> <<"i", "s", "o">>, age |-> age]

\* bool(x): None, "", [] and {} are false
Truthy(x) ==
  CASE x.t = "null" -> FALSE
    [] x.t = "dict" -> DOMAIN x.v # {}
    [] OTHER -> x.v # <<>>

\* s[:n]
Take(s, n) == SubSeq(s, 1, IF Len(s) < n THEN Len(s) ELSE n)

\* s.lstrip(ch)
RECURSIVE LStrip(_, _)
LStrip(s, ch) ==
  IF s # <<>> /\ Head(s) = ch THEN LStrip(Tail(s), ch) ELSE s

\* s.replace(a, b) for one-character a and b
ReplaceCh(s, a, b) == [i \in 1..Len(s) |-> IF s[i] = a THEN b ELSE s[i]]

\* s.lower() on the letters the state tokens use
LowerCh(ch) ==
  CASE ch = "R" -> "r" [] ch = "U" -> "u" [] ch = "N" -> "n"
    [] ch = "I" -> "i" [] ch = "G" -> "g" [] ch = "E" -> "e"
    [] ch = "X" -> "x" [] ch = "T" -> "t" [] ch = "D" -> "d"
    [] OTHER -> ch
Lower(s) == [i \in 1..Len(s) |-> LowerCh(s[i])]

\* string literals of format_container
S_Unknown == <<"U", "n", "k", "n", "o", "w", "n">>
S_unknown == <<"u", "n", "k", "n", "o", "w", "n">>
S_running == <<"r", "u", "n", "n", "i", "n", "g">>
S_Exited == <<"E", "x", "i", "t", "e", "d">>
S_UpLt1Min == <<"U", "p", " ", "<", " ", "1", " ", "m", "i", "n">>
S_WorkingDirKey == <<"c", "o", "m", ".", "d", "o", "c", "k", "e", "r", ".",
                     "c", "o", "m", "p", "o", "s", "e", ".", "p", "r", "o",
                     "j", "e", "c", "t", ".", "w", "o", "r", "k", "i", "n",
                     "g", "_", "d", "i", "r">>

\* an exception leaving a function
Raise(exc) == [t |-> "raise", v |-> <<>>, exc |-> exc]
IsRaise(x) == x.t = "raise"

\* --------------------------------------------------------- string helpers
\* s.find(pat) as a 1-based index, 0 when pat does not occur
FindSub(s, pat) ==
  LET hits == {i \in 1..(Len(s) - Len(pat) + 1) :
                 SubSeq(s, i, i + Len(pat) - 1) = pat}
  IN IF hits = {} THEN 0 ELSE CHOOSE i \in hits : \A j \in hits : i <= j

\* s.find(ch, start): first index >= start holding ch, 0 when there is none
FindChFrom(s, ch, start) ==
  LET hits == {i \in start..Len(s) : s[i] = ch}
  IN IF hits = {} THEN 0 ELSE CHOOSE i \in hits : \A j \in hits : i <= j

\* s.strip() (blanks only)
RECURSIVE RStrip(_, _)
RStrip(s, ch) ==
  IF s # <<>> /\ s[Len(s)] = ch THEN RStrip(SubSeq(s, 1, Len(s) - 1), ch) ELSE s
Strip(s) == RStrip(LStrip(s, " "), " ")

\* s.split(ch): the segments between the occurrences of ch
RECURSIVE Split(_, _)
Split(s, ch) ==
  LET i == FindChFrom(s, ch, 1)
  IN IF i = 0 THEN <<s>>
     ELSE <<SubSeq(s, 1, i - 1)>> \o Split(SubSeq(s, i + 1, Len(s)), ch)

\* ", ".join(parts)
RECURSIVE JoinComma(_)
JoinComma(parts) ==
  IF parts = <<>> THEN <<>>
  ELSE IF Len(parts) = 1 THEN parts[1]
  ELSE parts[1] \o <<",", " ">> \o JoinComma(Tail(parts))

\* str(n) for n >= 0
DigitCh(d) == CASE d = 0 -> "0" [] d = 1 -> "1" [] d = 2 -> "2" [] d = 3 -> "3"
                [] d = 4 -> "4" [] d = 5 -> "5" [] d = 6 -> "6" [] d = 7 -> "7"
                [] d = 8 -> "8" [] OTHER -> "9"
RECURSIVE Digits(_)
Digits(n) == IF n < 10 THEN <<DigitCh(n)>> ELSE Digits(n \div 10) \o <<DigitCh(n % 10)>>

\* ------------------------------------------------------- format_container
\* Each field is computed as the function computes it; a field whose
\* computation raises yields Raise(..).  A payload is a function from its
\* keys to tagged values; a dict-valued Ports map is the sequence of its
\* items, in map order.

FcName(c) ==
  LET name_val == Get(c, "Names")
  IN IF Truthy(name_val) /\ name_val.t = "list"
       THEN IF name_val.v[1].t = "str"
              THEN Str(LStrip(name_val.v[1].v, "/"))
              ELSE Raise("AttributeError")
     ELSE IF "Name" \in DOMAIN c /\ c["Name"].t = "str"
       THEN Str(LStrip(c["Name"].v, "/"))
     ELSE Str(S_Unknown)

FcImage(c) ==
  IF "Config" \in DOMAIN c /\ c["Config"].t = "dict" /\ "Image" \in DOMAIN c["Config"].v
    THEN c["Config"].v["Image"]
  ELSE IF "Image" \in DOMAIN c THEN c["Image"]
  ELSE Str(S_Unknown)

FcState(c) ==
  IF Get(c, "State").t = "dict"
    THEN GetD(c["State"].v, "Status", Str(S_unknown))
    ELSE GetD(c, "State", Str(S_unknown))

\* Uptime with the hours tested before the days
Uptime_hours_first(age) ==
  LET days == age \div 86400
      seconds == age % 86400
      hours == seconds \div 3600
      minutes == (seconds % 3600) \div 60
  IN IF hours > 0 THEN <<"U", "p", " ">> \o Digits(hours) \o <<" ", "h", "o", "u", "r", "s">>
     ELSE IF days > 0 THEN <<"U", "p", " ">> \o Digits(days) \o <<" ", "d", "a", "y", "s">>
     ELSE IF minutes > 0 THEN <<"U", "p", " ">> \o Digits(minutes) \o <<" ", "m", "i", "n", "s">>
     ELSE S_UpLt1Min

\* the uptime text of a running container that started `age` seconds ago
Uptime(age) ==
  LET days == age \div 86400
      seconds == age % 86400
      hours == seconds \div 3600
      minutes == (seconds % 3600) \div 60
  IN IF days > 0 THEN <<"U", "p", " ">> \o Digits(days) \o <<" ", "d", "a", "y", "s">>
     ELSE IF hours > 0 THEN <<"U", "p", " ">> \o Digits(hours) \o <<" ", "h", "o", "u", "r", "s">>
     ELSE IF minutes > 0 THEN <<"U", "p", " ">> \o Digits(minutes) \o <<" ", "m", "i", "n", "s">>
     ELSE S_UpLt1Min

FcStatus(c) ==
  LET supplied == Get(c, "Status")
      state == FcState(c)
      computed ==
        IF ~Truthy(supplied) /\ "State" \in DOMAIN c /\ c["State"].t = "dict"
          THEN LET started_at == Get(c["State"].v, "StartedAt")
               IN IF Truthy(started_at)
                    THEN IF started_at.t # "str" \/ "age" \notin DOMAIN started_at
                           \/ state.t # "str"
                           THEN Str(S_Unknown)
                         ELSE IF Lower(state.v) = S_running
                           THEN Str(Uptime(started_at.age))
                         ELSE Str(S_Exited)
                    ELSE supplied
          ELSE supplied
  IN IF Truthy(computed) THEN computed ELSE Str(S_Unknown)

\* PortEntries without the branch for a port that has no binding
PortEntries_bound_only(port, bindings) ==
  IF Truthy(bindings)
    THEN LET kept == SelectSeq(bindings.v,
                       LAMBDA b : Truthy(b) /\ "HostPort" \in DOMAIN b.v)
         IN [i \in 1..Len(kept) |->
               kept[i].v["HostPort"].v \o <<"-", ">">> \o port]
    ELSE <<>>

\* one entry of the structured port map: port -> bindings
PortEntries(port, bindings) ==
  IF Truthy(bindings)
    THEN LET kept == SelectSeq(bindings.v,
                       LAMBDA b : Truthy(b) /\ "HostPort" \in DOMAIN b.v)
         IN [i \in 1..Len(kept) |->
               kept[i].v["HostPort"].v \o <<"-", ">">> \o port]
    ELSE <<port>>

RECURSIVE PortList(_)
PortList(items) ==
  IF items = <<>> THEN <<>>
  ELSE PortEntries(items[1].port, items[1].bindings) \o PortList(Tail(items))

FcPorts(c) ==
  IF "NetworkSettings" \in DOMAIN c /\ c["NetworkSettings"].t # "dict"
    THEN Raise("TypeError")
  ELSE IF "NetworkSettings" \in DOMAIN c
          /\ "Ports" \in DOMAIN c["NetworkSettings"].v
          /\ c["NetworkSettings"].v["Ports"].t = "dict"
    THEN Str(JoinComma(PortList(c["NetworkSettings"].v["Ports"].v)))
  ELSE IF "Ports" \in DOMAIN c /\ Truthy(c["Ports"])
    THEN Str(c["Ports"].v)
  ELSE Str(<<>>)

FcCreated(c) ==
  LET created == GetD(c, "Created", GetD(c, "CreatedAt", Str(S_Unknown)))
  IN IF Truthy(created) /\ Len(created.v) > 19
       THEN Str(Take(ReplaceCh(created.v, "T", " "), 19))
       ELSE created

\* compose path out of a "key=value,key2=value2" label string
LabelStringPath(raw) ==
  LET pat == S_WorkingDirKey \o <<"=">>
      at == FindSub(raw, pat)
      start == at + Len(pat)
      comma == FindChFrom(raw, ",", start)
      end == IF comma = 0 THEN Len(raw) ELSE comma - 1
      manual == Strip(SubSeq(raw, start, end))
      parts == Split(raw, ",")
      keyed == {i \in 1..Len(parts) :
                  /\ FindChFrom(parts[i], "=", 1) # 0
                  /\ Strip(SubSeq(parts[i], 1, FindChFrom(parts[i], "=", 1) - 1))
                       = S_WorkingDirKey}
      last == CHOOSE i \in keyed : \A j \in keyed : j <= i
      eq == FindChFrom(parts[last], "=", 1)
  IN IF keyed # {} THEN Strip(SubSeq(parts[last], eq + 1, Len(parts[last])))
     ELSE IF at # 0 THEN manual
     ELSE <<>>

FcComposePath(c) ==
  IF "Config" \in DOMAIN c /\ c["Config"].t # "dict"
    THEN Raise("TypeError")
  ELSE IF "Config" \in DOMAIN c /\ "Labels" \in DOMAIN c["Config"].v
    THEN LET labels == c["Config"].v["Labels"]
         IN IF Truthy(labels) /\ S_WorkingDirKey \in DOMAIN labels.v
              THEN labels.v[S_WorkingDirKey]
              ELSE Str(<<>>)
  ELSE IF "Labels" \in DOMAIN c /\ c["Labels"].t = "dict"
    THEN IF S_WorkingDirKey \in DOMAIN c["Labels"].v
           THEN c["Labels"].v[S_WorkingDirKey]
           ELSE Str(<<>>)
  ELSE IF "Labels" \in DOMAIN c /\ c["Labels"].t = "str"
    THEN Str(LabelStringPath(c["Labels"].v))
  ELSE Str(<<>>)

FcId(c) ==
  LET id == GetD(c, "Id", GetD(c, "ID", Str(<<>>)))
  IN IF id.t = "str" THEN Str(Take(id.v, 12)) ELSE Raise("TypeError")

format_container(host_name, c) ==
  IF IsRaise(FcName(c)) THEN FcName(c)
  ELSE IF IsRaise(FcPorts(c)) THEN FcPorts(c)
  ELSE IF IsRaise(FcComposePath(c)) THEN FcComposePath(c)
  ELSE IF IsRaise(FcId(c)) THEN FcId(c)
  ELSE [t |-> "record",
        v |-> [id |-> FcId(c),
               name |-> FcName(c),
               image |-> FcImage(c),
               state |-> FcState(c),
               status |-> FcStatus(c),
               ports |-> FcPorts(c),
               created |-> FcCreated(c),
               host |-> host_name,
               compose_path |-> FcComposePath(c)]]

\* ------------------------------------------------ remote listing parsers
\* A line of command output is malformed text ("bad"), bytes that are not
\* UTF-8 ("bytes"), an empty line ("empty"), a JSON object ("obj", with its
\* fields in obj) or a JSON value that is not an object ("other").

\* output.decode(): strict UTF-8 decoding of the whole output
DecodeOutput(lines) ==
  IF \E i \in 1..Len(lines) : lines[i].json = "bytes"
    THEN Raise("UnicodeDecodeError")
    ELSE [t |-> "list", v |-> lines]

\* the dict list_containers builds from one `docker ps` JSON object
Remapped(data) ==
  [Id |-> Get(data, "ID"),
   Names |-> List(<<Get(data, "Names")>>),
   Image |-> Get(data, "Image"),
   State |-> Get(data, "State"),
   Status |-> Get(data, "Status"),
   Ports |-> Get(data, "Ports"),
   Created |-> Get(data, "CreatedAt")]

\* the for loop of list_containers over the output lines: the records
\* collected so far, or the exception that left the loop
RECURSIVE ParseContainers(_, _, _)
ParseContainers(host_name, lines, containers) ==
  IF lines = <<>> THEN [t |-> "list", v |-> containers]
  ELSE LET line == Head(lines)
       IN IF line.json = "other" THEN Raise("AttributeError")
          ELSE IF line.json # "obj"
            THEN ParseContainers(host_name, Tail(lines), containers)
          ELSE LET rec == format_container(host_name, Remapped(line.obj))
               IN IF IsRaise(rec) THEN rec
                  ELSE ParseContainers(host_name, Tail(lines),
                                       Append(containers, rec.v))

\* the record list_images builds from one `docker images` JSON object
ImageRecord(data) ==
  LET created == GetD(data, "CreatedAt", Str(<<>>))
  IN IF created.t # "str" THEN Raise("TypeError")
     ELSE [t |-> "record",
           v |-> [id |-> Get(data, "ID"),
                  repo |-> GetD(data, "Repository", Str(<<"<", "n", "o", "n", "e", ">">>)),
                  tag |-> GetD(data, "Tag", Str(<<"<", "n", "o", "n", "e", ">">>)),
                  created |-> Str(Take(created.v, 19)),
                  size |-> Get(data, "Size")]]

RECURSIVE ParseImages(_, _)
ParseImages(lines, images) ==
  IF lines = <<>> THEN [t |-> "list", v |-> images]
  ELSE LET line == Head(lines)
       IN IF line.json = "other" THEN Raise("AttributeError")
          ELSE IF line.json # "obj" THEN ParseImages(Tail(lines), images)
          ELSE LET rec == ImageRecord(line.obj)
               IN IF IsRaise(rec) THEN rec
                  ELSE ParseImages(Tail(lines), Append(images, rec.v))

\* ------------------------------------------------------------------ state
VARIABLES
  req,           \* request in progress: "idle", "op", "stream", "poll", "list"
  calls,         \* requests started so far
  openSessions,  \* SSH sessions connected and not yet closed
  \* --- one-shot DockerService operation and its route
  opName,        \* DockerService method called by the route
  hostType,      \* host.type of the host of the request: "local" or "ssh"
  opPc,          \* position inside the method
  cmdExit,       \* exit status of the command the host ran (-1: none has exited)
  cmdStderr,     \* what the command wrote to standard error
  opOutput,      \* lines the command wrote to standard output
  opOutcome,     \* how the method ended: return value or exception
  routeResp,     \* what the route answered
  cmdsThisCall,  \* mutating commands / API calls issued by the current call
  reachedThisCall, \* the current call got as far as the backend
  issued,        \* mutating commands / API calls issued, all calls
  reached,       \* mutating calls that got as far as the backend
  args,          \* arguments the route passes to the method
  command,       \* the command line handed to the shell
  cmdRunning,    \* the remote command exec_command started has not exited yet
  \* --- log stream: websocket_logs, stream_logs and its reader thread
  streamHost,    \* host.type of the streamed host
  hPc,           \* position of websocket_logs
  hLine,         \* the line websocket_logs is about to send
  gPc,           \* position of the stream_logs generator
  pPc,           \* position of the reader thread
  q,             \* queue.Queue between reader thread and generator
  sessOpen,      \* the SSH session of the stream is open
  subConnected,  \* the websocket's subscriber is still there
  produced,      \* chunks the reader thread read from the log source
  puts,          \* every item the reader thread put on the queue, in order
  yielded,       \* texts the generator yielded
  delivered,     \* texts the subscriber received
  failure,       \* the terminal failure that hit the stream, if any
  srcEOF,        \* the log source reached end-of-stream
  \* --- status poller: websocket_container_status
  plPc,          \* position of the poller
  tick,          \* number of the poll cycle
  hostIdx,       \* index of the host the for loop is at
  up,            \* hosts whose list_containers succeeds in this cycle
  all_containers, \* the records collected in this cycle
  jsonBound,     \* the function's local name json is bound (import json ran)
  pollSub,       \* the poller's subscriber is still there
  lastEvent,     \* the last event the subscriber received
  cycleFailed,   \* an exception reached the except clause in this cycle
  \* --- multi-host listing: list_containers_filtered without host_name
  lsPc,          \* position of the route
  lsIdx,         \* index of the host the for loop is at
  lsUp,          \* hosts whose list_containers succeeds
  containers,    \* the records collected
  lsResp,        \* the context the route renders
  \* --- format_container called on one payload
  fcPc,          \* "idle", "input" (payload chosen), "done" (record built)
  source,        \* the wire shape the payload came in
  payload,       \* the dict passed to format_container
  record,        \* what format_container returned or raised
  \* --- get_ssh_client called for one host row
  sshPc,         \* "idle", "host" (row loaded), "called" (client.connect called)
  host,          \* the DockerHost row
  connect_kwargs \* the keyword arguments passed to client.connect

opVars == <<opName, hostType, opPc, cmdExit, cmdStderr, opOutput, opOutcome,
            routeResp, cmdsThisCall, reachedThisCall, issued, reached,
            args, command, cmdRunning>>

streamVars == <<streamHost, hPc, hLine, gPc, pPc, q, sessOpen, subConnected,
                produced, puts, yielded, delivered, failure, srcEOF>>

pollVars == <<plPc, tick, hostIdx, up, all_containers, jsonBound, pollSub,
              lastEvent, cycleFailed>>

listVars == <<lsPc, lsIdx, lsUp, containers, lsResp>>

fcVars == <<fcPc, source, payload, record>>

sshVars == <<sshPc, host, connect_kwargs>>

\* the variables of the functions called on their own
unitVars == <<fcVars, sshVars>>

\* the variables of the server's requests
serverVars == <<req, calls, openSessions, opVars, streamVars, pollVars, listVars>>

vars == <<serverVars, unitVars>>

\* ------------------------------------------------------- DockerService ops
MutatingOps == {"restart_container", "stop_container", "start_container",
                "delete_image", "run_compose"}
NoWaitOps == {"restart_container", "stop_container", "start_container"}
ExitCheckedOps == {"delete_image", "run_compose"}
ReadOps == {"list_containers", "list_images", "get_logs"}
OpNames == MutatingOps \cup ReadOps
HostTypes == {"local", "ssh"}

StderrTexts == {"", "No such container"}

NoOutcome == [kind |-> "none", prefix |-> "", text |-> "", value |-> <<>>]
Returned(val) == [kind |-> "return", prefix |-> "", text |-> "", value |-> val]
Raised(pre, txt) == [kind |-> "raise", prefix |-> pre, text |-> txt, value |-> <<>>]

NoResp == [code |-> 0, status |-> "", detail |-> <<>>, body |-> <<>>]

\* no DockerHost row; "" stands for None or the empty string, 0 for no port
NoHost == [ip |-> "", port |-> 0, ssh_user |-> "", ssh_password |-> "",
           ssh_key_path |-> ""]
NoArgs == [search |-> <<>>, path |-> "", action |-> ""]
NoKwargs == [k \in {} |-> ""]

Passwords == {"", "secret"}
KeyPaths == {"", "/root/.ssh/id_rsa"}

\* the DockerHost rows of type ssh a route can load
HostRows ==
  [ip : {"10.0.0.5", "10.0.0.6", "docker1.lan"}, port : {0, 22, 2222},
   ssh_user : {"root", "deploy"}, ssh_password : Passwords,
   ssh_key_path : KeyPaths]

\* ConnectKwargs passing the key file whenever one is set
ConnectKwargs_both(h) ==
  LET keys == {"hostname", "port", "username"}
                \cup (IF h.ssh_password # "" THEN {"password"} ELSE {})
                \cup (IF h.ssh_key_path # "" THEN {"key_filename"} ELSE {})
  IN [k \in keys |->
        CASE k = "hostname" -> [s |-> h.ip, n |-> 0]
          [] k = "port" -> [s |-> "", n |-> IF h.port # 0 THEN h.port ELSE 22]
          [] k = "username" -> [s |-> h.ssh_user, n |-> 0]
          [] k = "password" -> [s |-> h.ssh_password, n |-> 0]
          [] OTHER -> [s |-> h.ssh_key_path, n |-> 0]]

\* get_ssh_client: the keyword arguments of client.connect; a value is a
\* string s or, for the port, a number n
ConnectKwargs(h) ==
  LET keys == {"hostname", "port", "username"}
                \cup (IF h.ssh_password # "" THEN {"password"}
                      ELSE IF h.ssh_key_path # "" THEN {"key_filename"}
                      ELSE {})
  IN [k \in keys |->
        CASE k = "hostname" -> [s |-> h.ip, n |-> 0]
          [] k = "port" -> [s |-> "", n |-> IF h.port # 0 THEN h.port ELSE 22]
          [] k = "username" -> [s |-> h.ssh_user, n |-> 0]
          [] k = "password" -> [s |-> h.ssh_password, n |-> 0]
          [] OTHER -> [s |-> h.ssh_key_path, n |-> 0]]

\* search terms of get_logs, directories and actions of run_compose
S_err == <<"e", "r", "r">>
S_e_r == <<"e", ".", "r">>
Searches == {<<>>, S_err, S_e_r}
Paths == {"/srv/app", "/srv/my app"}
\* the action field of the compose form: the two the page sends and two it
\* does not
Actions == {"up", "down", "restart", "Up"}

\* the arguments a route passes to the method op
ArgsOf(op) ==
  CASE op = "get_logs" ->
         {[search |-> x, path |-> "", action |-> ""] : x \in Searches}
    [] op = "run_compose" ->
         {[search |-> <<>>, path |-> x, action |-> y] : x \in Paths, y \in Actions}
    [] OTHER -> {NoArgs}

\* search.replace("'", "")
CleanSearch(search) == SelectSeq(search, LAMBDA ch : ch # "'")

\* CommandOf with every action but "down" taken for up
CommandOf_up_unless_down(op, a) ==
  CASE op = "list_containers" -> "docker ps -a --format '{{json .}}'"
    [] op = "list_images" -> "docker images --format '{{json .}}'"
    [] op = "restart_container" -> "docker restart c1"
    [] op = "stop_container" -> "docker stop c1"
    [] op = "start_container" -> "docker start c1"
    [] op = "delete_image" -> "docker rmi i1"
    [] op = "get_logs" ->
         "docker logs --tail all c1"
           \o (IF a.search # <<>> THEN " | grep -i 'clean_search'" ELSE "")
    [] OTHER ->
         "cd " \o a.path \o " && docker-compose "
           \o (IF a.action = "down" THEN "down" ELSE "up -d")

\* the command line each method hands to the shell
CommandOf(op, a) ==
  CASE op = "list_containers" -> "docker ps -a --format '{{json .}}'"
    [] op = "list_images" -> "docker images --format '{{json .}}'"
    [] op = "restart_container" -> "docker restart c1"
    [] op = "stop_container" -> "docker stop c1"
    [] op = "start_container" -> "docker start c1"
    [] op = "delete_image" -> "docker rmi i1"
    [] op = "get_logs" ->
         "docker logs --tail all c1"
           \o (IF a.search # <<>> THEN " | grep -i 'clean_search'" ELSE "")
    [] OTHER ->
         "cd " \o a.path \o " && docker-compose "
           \o (IF a.action = "up" THEN "up -d" ELSE "down")

\* text of the exception each exit-checked method raises on a non-zero exit
FailPrefix(op, ht) ==
  IF op = "delete_image" THEN "Failed to remove image: "
  ELSE IF ht = "ssh" THEN "Remote Compose failed: "
  ELSE "Compose failed: "

\* the "status" each route puts into its success answer
SuccessStatus(op) ==
  CASE op = "restart_container" -> "restarted"
    [] op = "stop_container" -> "stopped"
    [] op = "start_container" -> "started"
    [] op = "delete_image" -> "deleted"
    [] op = "run_compose" -> "success"
    [] OTHER -> "rendered"

NoEvent == [type |-> "none", containers |-> <<>>]
NoContext == [rendered |-> FALSE, containers |-> <<>>, errors |-> <<>>]

\* the poller's variables while no poller runs
PollReset ==
  /\ plPc' = "idle"
  /\ tick' = 0
  /\ hostIdx' = 0
  /\ up' = {}
  /\ all_containers' = <<>>
  /\ jsonBound' = FALSE
  /\ pollSub' = TRUE
  /\ lastEvent' = NoEvent
  /\ cycleFailed' = FALSE

\* the listing route's variables while no listing is served
ListReset ==
  /\ lsPc' = "idle"
  /\ lsIdx' = 0
  /\ lsUp' = {}
  /\ containers' = <<>>
  /\ lsResp' = NoContext

\* the log stream's variables while no stream is served
StreamReset ==
  /\ streamHost' = "local"
  /\ hPc' = "idle"
  /\ hLine' = ""
  /\ gPc' = "none"
  /\ pPc' = "none"
  /\ q' = <<>>
  /\ sessOpen' = FALSE
  /\ subConnected' = TRUE
  /\ produced' = <<>>
  /\ puts' = <<>>
  /\ yielded' = <<>>
  /\ delivered' = <<>>
  /\ failure' = "none"
  /\ srcEOF' = FALSE

\* the one-shot operation's variables while no operation is served
OpReset ==
  /\ opName' = "none"
  /\ hostType' = "local"
  /\ opPc' = "idle"
  /\ cmdExit' = -1
  /\ cmdStderr' = ""
  /\ opOutput' = <<>>
  /\ opOutcome' = NoOutcome
  /\ routeResp' = NoResp
  /\ cmdsThisCall' = 0
  /\ reachedThisCall' = FALSE
  /\ args' = NoArgs
  /\ command' = ""
  /\ cmdRunning' = FALSE

\* the state of the server before the first request
ServerInit ==
  /\ req = "idle"
  /\ calls = 0
  /\ openSessions = 0
  /\ opName = "none"
  /\ hostType = "local"
  /\ opPc = "idle"
  /\ cmdExit = -1
  /\ cmdStderr = ""
  /\ opOutput = <<>>
  /\ opOutcome = NoOutcome
  /\ routeResp = NoResp
  /\ cmdsThisCall = 0
  /\ reachedThisCall = FALSE
  /\ issued = 0
  /\ reached = 0
  /\ streamHost = "local"
  /\ hPc = "idle"
  /\ hLine = ""
  /\ gPc = "none"
  /\ pPc = "none"
  /\ q = <<>>
  /\ sessOpen = FALSE
  /\ subConnected = TRUE
  /\ produced = <<>>
  /\ puts = <<>>
  /\ yielded = <<>>
  /\ delivered = <<>>
  /\ failure = "none"
  /\ srcEOF = FALSE
  /\ plPc = "idle"
  /\ tick = 0
  /\ hostIdx = 0
  /\ up = {}
  /\ all_containers = <<>>
  /\ jsonBound = FALSE
  /\ pollSub = TRUE
  /\ lastEvent = NoEvent
  /\ cycleFailed = FALSE
  /\ lsPc = "idle"
  /\ lsIdx = 0
  /\ lsUp = {}
  /\ containers = <<>>
  /\ lsResp = NoContext
  /\ args = NoArgs
  /\ command = ""
  /\ cmdRunning = FALSE

Init ==
  /\ ServerInit
  /\ fcPc = "idle"
  /\ source = "none"
  /\ payload = <<>>
  /\ record = None
  /\ sshPc = "idle"
  /\ host = NoHost
  /\ connect_kwargs = NoKwargs

\* A new request is accepted when the previous one has ended, including
\* its reader thread and the finalisation of its generator.
CanStart ==
  /\ req = "idle"
  /\ calls < MaxCalls
  /\ pPc \in {"none", "done"}
  /\ gPc \in {"none", "done", "closed"}

\* A route looks the host up and calls the DockerService method.
StartOp ==
  /\ CanStart
  /\ \E op \in OpNames, ht \in HostTypes :
       /\ opName' = op
       /\ hostType' = ht
       /\ \E a \in ArgsOf(op) : args' = a
  /\ req' = "op"
  /\ calls' = calls + 1
  /\ opPc' = "start"
  /\ cmdExit' = -1
  /\ cmdStderr' = ""
  /\ opOutput' = <<>>
  /\ opOutcome' = NoOutcome
  /\ routeResp' = NoResp
  /\ cmdsThisCall' = 0
  /\ reachedThisCall' = FALSE
  /\ command' = ""
  /\ cmdRunning' = FALSE
  /\ StreamReset
  /\ PollReset
  /\ ListReset
  /\ UNCHANGED <<openSessions, issued, reached>>
  /\ UNCHANGED unitVars

\* ---- command output the model feeds to the parsers ----------------------
SeqsUpTo(S, n) == UNION {[1..k -> S] : k \in 0..n}

S_web == <<"/", "w", "e", "b">>
S_db == <<"d", "b">>
S_nginx == <<"n", "g", "i", "n", "x">>
S_Up2h == <<"U", "p", " ", "2", " ", "h", "o", "u", "r", "s">>
S_port == <<"8", "0", "/", "t", "c", "p">>
S_cliTime == <<"2", "0", "2", "6", "-", "0", "1", "-", "2", "7", " ",
               "2", "2", ":", "0", "0", ":", "1", "3", " ",
               "+", "0", "0", "0", "0", " ", "U", "T", "C">>
S_id1 == <<"a", "1", "b", "2", "c", "3", "d", "4", "e", "5", "f", "6", "0", "7">>
S_id2 == <<"f", "f", "0", "0">>
S_srvApp == <<"/", "s", "r", "v", "/", "a", "p", "p">>
\* the label segment naming the compose project's working directory
Seg_wd == S_WorkingDirKey \o <<"=">> \o S_srvApp

\* a complete `docker ps --format '{{json .}}'` line
LineWeb == [json |-> "obj",
            obj |-> [ID |-> Str(S_id1), Names |-> Str(S_web), Image |-> Str(S_nginx),
                     State |-> Str(S_running), Status |-> Str(S_Up2h),
                     Ports |-> Str(S_port), CreatedAt |-> Str(S_cliTime),
                     Labels |-> Str(Seg_wd)]]
LineDb == [json |-> "obj",
           obj |-> [ID |-> Str(S_id2), Names |-> Str(S_db), Image |-> Str(S_db),
                    State |-> Str(S_Exited), Status |-> Str(<<>>),
                    Ports |-> Str(<<>>), CreatedAt |-> Str(S_cliTime)]]
\* a JSON object without the Names key
LineNoNames == [json |-> "obj",
                obj |-> [ID |-> Str(S_id2), Image |-> Str(S_db),
                         State |-> Str(S_Exited)]]
LineBad == [json |-> "bad", obj |-> <<>>]
LineEmpty == [json |-> "empty", obj |-> <<>>]
LineOther == [json |-> "other", obj |-> <<>>]
LineBytes == [json |-> "bytes", obj |-> <<>>]
ContainerLines == {LineWeb, LineDb, LineNoNames, LineBad, LineBytes, LineEmpty,
                   LineOther}

\* `docker images --format '{{json .}}'` lines
ImgLine == [json |-> "obj",
            obj |-> [ID |-> Str(S_id2), Repository |-> Str(S_nginx),
                     Tag |-> Str(<<"1">>), CreatedAt |-> Str(S_cliTime),
                     Size |-> Str(<<"5", "M", "B">>)]]
ImgLineBare == [json |-> "obj", obj |-> [ID |-> Str(S_id1)]]
ImageLines == {ImgLine, ImgLineBare, LineBad, LineBytes}

\* lines of a container's log, each written to stdout or to stderr
S_Err == <<"E", "r", "r">>
S_exr == <<"e", "x", "r">>
S_ok == <<"o", "k">>
LogLines == [stream : {"stdout", "stderr"}, text : {S_Err, S_exr, S_ok}]

\* what `docker-compose` writes to standard output
S_composeOut == <<"C", "o", "n", "t", "a", "i", "n", "e", "r", " ",
                    "w", "e", "b", " ", "S", "t", "a",
                    "r", "t", "e", "d">>

OutputsOf(op) ==
  CASE op = "list_containers" -> SeqsUpTo(ContainerLines, MaxLines)
    [] op = "list_images" -> SeqsUpTo(ImageLines, MaxLines)
    [] op = "get_logs" -> SeqsUpTo(LogLines, MaxLogLines)
    [] op = "run_compose" -> {<<>>, <<S_composeOut>>}
    [] OTHER -> {<<>>}

\* the texts of the lines of log written to the streams in `streams`
RECURSIVE TextsOf(_, _)
TextsOf(log, streams) ==
  IF log = <<>> THEN <<>>
  ELSE (IF Head(log).stream \in streams THEN <<Head(log).text>> ELSE <<>>)
         \o TextsOf(Tail(log), streams)

\* search.lower() in line.lower()
Contains(line, search) == FindSub(Lower(line), Lower(search)) # 0

\* grep -i 'pattern' on one line: the pattern is a regular expression, of
\* which the model knows literal characters and "." (any character)
GrepI(line, pattern) ==
  \E i \in 1..(Len(line) - Len(pattern) + 1) :
    \A j \in 1..Len(pattern) :
      pattern[j] = "." \/ LowerCh(pattern[j]) = LowerCh(line[i + j - 1])

S_ErrFetching == <<"E", "r", "r", "o", "r", " ", "f", "e", "t", "c",
                     "h", "i", "n", "g", " ", "l",
                     "o", "g", "s", ":", " ">>

\* get_logs, local: container.logs() returns both streams interleaved; the
\* lines are filtered when a search term is given
LocalLogs(log, search) ==
  IF search # <<>>
    THEN SelectSeq(TextsOf(log, {"stdout", "stderr"}),
                   LAMBDA line : Contains(line, search))
    ELSE TextsOf(log, {"stdout", "stderr"})

\* get_logs, remote: stdout of `docker logs ... | grep -i '...'` followed
\* by stderr, which the pipe does not filter
RemoteLogs(log, search) ==
  (IF search # <<>>
     THEN SelectSeq(TextsOf(log, {"stdout"}),
                    LAMBDA line : GrepI(line, CleanSearch(search)))
     ELSE TextsOf(log, {"stdout"}))
    \o TextsOf(log, {"stderr"})

\* ---- remote path -------------------------------------------------------
\* get_ssh_client: client.connect succeeded, the session is open
get_ssh_client ==
  /\ req = "op" /\ opPc = "start" /\ hostType = "ssh"
  /\ openSessions' = openSessions + 1
  /\ opPc' = "connected"
  /\ reachedThisCall' = TRUE
  /\ reached' = IF opName \in MutatingOps THEN reached + 1 ELSE reached
  /\ UNCHANGED <<req, calls, opName, hostType, cmdExit, cmdStderr, opOutput,
                 opOutcome, routeResp, cmdsThisCall, issued>>
  /\ UNCHANGED <<streamVars, pollVars, listVars>>
  /\ UNCHANGED <<args, command, cmdRunning>>
  /\ UNCHANGED unitVars

\* get_ssh_client: client.connect raised; the exception leaves the method
get_ssh_client_fails ==
  /\ req = "op" /\ opPc = "start" /\ hostType = "ssh"
  /\ opOutcome' = Raised("", "connect failed")
  /\ opPc' = "ended"
  /\ UNCHANGED <<req, calls, openSessions, opName, hostType, cmdExit,
                 cmdStderr, opOutput, routeResp, cmdsThisCall,
                 reachedThisCall, issued, reached>>
  /\ UNCHANGED <<streamVars, pollVars, listVars>>
  /\ UNCHANGED <<args, command, cmdRunning>>
  /\ UNCHANGED unitVars

\* ssh.exec_command(command) returned: the host has started the command;
\* exec_command does not wait for it
exec_command ==
  /\ req = "op" /\ opPc = "connected"
  /\ cmdsThisCall' = IF opName \in MutatingOps THEN cmdsThisCall + 1 ELSE cmdsThisCall
  /\ issued' = IF opName \in MutatingOps THEN issued + 1 ELSE issued
  /\ opPc' = "running"
  /\ UNCHANGED <<req, calls, openSessions, opName, hostType, cmdExit,
                 cmdStderr, opOutput, opOutcome, routeResp, reachedThisCall,
                 reached>>
  /\ UNCHANGED <<streamVars, pollVars, listVars>>
  /\ command' = CommandOf(opName, args)
  /\ cmdRunning' = TRUE
  /\ UNCHANGED args
  /\ UNCHANGED unitVars


\* exec_command_fails with one more attempt instead of giving up
exec_command_fails_retry ==
  /\ req = "op" /\ opPc = "connected"
  /\ cmdsThisCall < 2
  /\ cmdsThisCall' = IF opName \in MutatingOps THEN cmdsThisCall + 1 ELSE cmdsThisCall
  /\ issued' = IF opName \in MutatingOps THEN issued + 1 ELSE issued
  /\ UNCHANGED <<req, calls, openSessions, opName, hostType, opPc, cmdExit,
                 cmdStderr, opOutput, opOutcome, routeResp, reachedThisCall,
                 reached>>
  /\ UNCHANGED <<streamVars, pollVars, listVars>>
  /\ command' = CommandOf(opName, args)
  /\ UNCHANGED <<args, cmdRunning>>
  /\ UNCHANGED unitVars

\* ssh.exec_command(command) raised: finally closes the session
exec_command_fails ==
  /\ req = "op" /\ opPc = "connected"
  /\ cmdsThisCall' = IF opName \in MutatingOps THEN cmdsThisCall + 1 ELSE cmdsThisCall
  /\ issued' = IF opName \in MutatingOps THEN issued + 1 ELSE issued
  /\ openSessions' = openSessions - 1
  /\ opOutcome' = Raised("", "transport error")
  /\ opPc' = "ended"
  /\ UNCHANGED <<req, calls, opName, hostType, cmdExit, cmdStderr, opOutput,
                 routeResp, reachedThisCall, reached>>
  /\ UNCHANGED <<streamVars, pollVars, listVars>>
  /\ command' = CommandOf(opName, args)
  /\ UNCHANGED <<args, cmdRunning>>
  /\ UNCHANGED unitVars

\* the remote host: the command started by exec_command ends with some exit
\* status and some output; it does so whether or not the session that
\* started it is still open
command_exits ==
  /\ cmdRunning
  /\ cmdRunning' = FALSE
  /\ \E ex \in {0, 1}, err \in StderrTexts :
       /\ cmdExit' = ex
       /\ cmdStderr' = err
  /\ \E out \in OutputsOf(opName) : opOutput' = out
  /\ UNCHANGED <<req, calls, openSessions, opName, hostType, opPc,
                 opOutcome, routeResp, cmdsThisCall, reachedThisCall, issued,
                 reached>>
  /\ UNCHANGED <<streamVars, pollVars, listVars>>
  /\ UNCHANGED <<args, command>>
  /\ UNCHANGED unitVars

\* restart/stop/start_container: nothing follows exec_command; finally
\* closes the session and the method returns None
return_after_exec ==
  /\ req = "op" /\ opPc = "running" /\ hostType = "ssh"
  /\ opName \in NoWaitOps
  /\ openSessions' = openSessions - 1
  /\ opOutcome' = Returned(<<>>)
  /\ opPc' = "ended"
  /\ UNCHANGED <<req, calls, opName, hostType, cmdExit, cmdStderr, opOutput,
                 routeResp, cmdsThisCall, reachedThisCall, issued, reached>>
  /\ UNCHANGED <<streamVars, pollVars, listVars>>
  /\ UNCHANGED <<args, command, cmdRunning>>
  /\ UNCHANGED unitVars

\* delete_image / run_compose: stdout.channel.recv_exit_status() and the
\* reads of stdout / stderr returned
recv_exit_status ==
  /\ req = "op" /\ opPc = "running" /\ hostType = "ssh"
  /\ opName \in ExitCheckedOps
  /\ ~cmdRunning
  /\ opPc' = "exited"
  /\ UNCHANGED <<req, calls, openSessions, opName, hostType, cmdExit,
                 cmdStderr, opOutput, opOutcome, routeResp, cmdsThisCall,
                 reachedThisCall, issued, reached>>
  /\ UNCHANGED <<streamVars, pollVars, listVars>>
  /\ UNCHANGED <<args, command, cmdRunning>>
  /\ UNCHANGED unitVars

\* delete_image / run_compose: if exit_status != 0: raise ...; finally
\* closes the session
check_exit_status ==
  /\ req = "op" /\ opPc = "exited" /\ hostType = "ssh"
  /\ opOutcome' = IF cmdExit # 0
                    THEN Raised(FailPrefix(opName, hostType), cmdStderr)
                    ELSE Returned(opOutput)
  /\ openSessions' = openSessions - 1
  /\ opPc' = "ended"
  /\ UNCHANGED <<req, calls, opName, hostType, cmdExit, cmdStderr, opOutput,
                 routeResp, cmdsThisCall, reachedThisCall, issued, reached>>
  /\ UNCHANGED <<streamVars, pollVars, listVars>>
  /\ UNCHANGED <<args, command, cmdRunning>>
  /\ UNCHANGED unitVars

\* list_containers / list_images / get_logs: stdout.read() returned and
\* the output is turned into the result; finally closes the session
read_output ==
  /\ req = "op" /\ opPc = "running" /\ hostType = "ssh"
  /\ opName \in ReadOps
  /\ ~cmdRunning
  /\ LET res == CASE opName # "get_logs" /\ IsRaise(DecodeOutput(opOutput))
                       -> DecodeOutput(opOutput)
                  [] opName = "list_containers" -> ParseContainers("h", opOutput, <<>>)
                  [] opName = "list_images" -> ParseImages(opOutput, <<>>)
                  [] OTHER -> [t |-> "list", v |-> RemoteLogs(opOutput, args.search)]
     IN opOutcome' = IF IsRaise(res) THEN Raised("", res.exc) ELSE Returned(res.v)
  /\ openSessions' = openSessions - 1
  /\ opPc' = "ended"
  /\ UNCHANGED <<req, calls, opName, hostType, cmdExit, cmdStderr, opOutput,
                 routeResp, cmdsThisCall, reachedThisCall, issued, reached>>
  /\ UNCHANGED <<streamVars, pollVars, listVars>>
  /\ UNCHANGED <<args, command, cmdRunning>>
  /\ UNCHANGED unitVars


\* channel_read_fails without the finally clause
channel_read_fails_leak ==
  /\ req = "op" /\ opPc \in {"running", "exited"} /\ hostType = "ssh"
  /\ opName \notin NoWaitOps
  /\ opOutcome' = Raised("", "transport error")
  /\ opPc' = "ended"
  /\ UNCHANGED <<req, calls, openSessions, opName, hostType, cmdExit,
                 cmdStderr, opOutput, routeResp, cmdsThisCall,
                 reachedThisCall, issued, reached>>
  /\ UNCHANGED <<streamVars, pollVars, listVars>>
  /\ UNCHANGED <<args, command, cmdRunning>>
  /\ UNCHANGED unitVars

\* a read on the channel (recv_exit_status, stdout.read, stderr.read)
\* raised a transport error; finally closes the session
channel_read_fails ==
  /\ req = "op" /\ opPc \in {"running", "exited"} /\ hostType = "ssh"
  /\ opName \notin NoWaitOps
  /\ openSessions' = openSessions - 1
  /\ opOutcome' = Raised("", "transport error")
  /\ opPc' = "ended"
  /\ UNCHANGED <<req, calls, opName, hostType, cmdExit, cmdStderr, opOutput,
                 routeResp, cmdsThisCall, reachedThisCall, issued, reached>>
  /\ UNCHANGED <<streamVars, pollVars, listVars>>
  /\ UNCHANGED <<args, command, cmdRunning>>
  /\ UNCHANGED unitVars

\* ---- local path --------------------------------------------------------
\* DockerService.get_local_client() returned a client
get_local_client ==
  /\ req = "op" /\ opPc = "start" /\ hostType = "local"
  /\ opName # "run_compose"
  /\ opPc' = "client"
  /\ reachedThisCall' = (opName = "delete_image")
  /\ reached' = IF opName = "delete_image" THEN reached + 1 ELSE reached
  /\ UNCHANGED <<req, calls, openSessions, opName, hostType, cmdExit,
                 cmdStderr, opOutput, opOutcome, routeResp, cmdsThisCall,
                 issued>>
  /\ UNCHANGED <<streamVars, pollVars, listVars>>
  /\ UNCHANGED <<args, command, cmdRunning>>
  /\ UNCHANGED unitVars

\* docker.from_env() raised
get_local_client_fails ==
  /\ req = "op" /\ opPc = "start" /\ hostType = "local"
  /\ opName # "run_compose"
  /\ opOutcome' = Raised("", "docker unavailable")
  /\ opPc' = "ended"
  /\ UNCHANGED <<req, calls, openSessions, opName, hostType, cmdExit,
                 cmdStderr, opOutput, routeResp, cmdsThisCall,
                 reachedThisCall, issued, reached>>
  /\ UNCHANGED <<streamVars, pollVars, listVars>>
  /\ UNCHANGED <<args, command, cmdRunning>>
  /\ UNCHANGED unitVars

\* client.containers.get(container_id) found the container, or raised
containers_get ==
  /\ req = "op" /\ opPc = "client"
  /\ opName \in NoWaitOps \cup {"get_logs"}
  /\ \/ /\ opPc' = "got"
        /\ reachedThisCall' = (opName \in MutatingOps)
        /\ reached' = IF opName \in MutatingOps THEN reached + 1 ELSE reached
        /\ UNCHANGED opOutcome
     \/ /\ opPc' = "ended"
        /\ opOutcome' = Raised("", "not found")
        /\ UNCHANGED <<reachedThisCall, reached>>
  /\ UNCHANGED <<req, calls, openSessions, opName, hostType, cmdExit,
                 cmdStderr, opOutput, routeResp, cmdsThisCall, issued>>
  /\ UNCHANGED <<streamVars, pollVars, listVars>>
  /\ UNCHANGED <<args, command, cmdRunning>>
  /\ UNCHANGED unitVars

\* the one SDK call of a mutating method (container.restart / stop /
\* start, client.images.remove): it returns or raises
sdk_call ==
  /\ req = "op"
  /\ \/ opPc = "got" /\ opName \in NoWaitOps
     \/ opPc = "client" /\ opName = "delete_image"
  /\ cmdsThisCall' = cmdsThisCall + 1
  /\ issued' = issued + 1
  /\ \E ok \in BOOLEAN :
       opOutcome' = IF ok THEN Returned(<<>>) ELSE Raised("", "api error")
  /\ opPc' = "ended"
  /\ UNCHANGED <<req, calls, openSessions, opName, hostType, cmdExit,
                 cmdStderr, opOutput, routeResp, reachedThisCall, reached>>
  /\ UNCHANGED <<streamVars, pollVars, listVars>>
  /\ UNCHANGED <<args, command, cmdRunning>>
  /\ UNCHANGED unitVars

\* the SDK read of a listing (containers.list, images.list) or of the
\* logs; get_logs turns an exception of container.logs into a text
sdk_read ==
  /\ req = "op"
  /\ \/ opPc = "client" /\ opName \in {"list_containers", "list_images"}
     \/ opPc = "got" /\ opName = "get_logs"
  /\ \E ok \in BOOLEAN, out \in OutputsOf(opName) :
       /\ opOutput' = IF ok /\ opName = "get_logs" THEN out ELSE <<>>
       /\ opOutcome' =
            IF opName = "get_logs"
              THEN Returned(IF ok THEN LocalLogs(out, args.search)
                            ELSE <<S_ErrFetching>>)
            ELSE IF ok THEN Returned(<<>>)
            ELSE Raised("", "api error")
  /\ opPc' = "ended"
  /\ UNCHANGED <<req, calls, openSessions, opName, hostType, cmdExit,
                 cmdStderr, routeResp, cmdsThisCall,
                 reachedThisCall, issued, reached>>
  /\ UNCHANGED <<streamVars, pollVars, listVars>>
  /\ UNCHANGED <<args, command, cmdRunning>>
  /\ UNCHANGED unitVars

\* run_compose, local: asyncio.create_subprocess_shell(full_command) started
\* the shell, which ends with some return code
create_subprocess_shell ==
  /\ req = "op" /\ opPc = "start" /\ hostType = "local"
  /\ opName = "run_compose"
  /\ \E ex \in {0, 1}, err \in StderrTexts :
       /\ cmdExit' = ex
       /\ cmdStderr' = err
  /\ \E out \in OutputsOf(opName) : opOutput' = out
  /\ cmdsThisCall' = cmdsThisCall + 1
  /\ issued' = issued + 1
  /\ reachedThisCall' = TRUE
  /\ reached' = reached + 1
  /\ opPc' = "running"
  /\ UNCHANGED <<req, calls, openSessions, opName, hostType,
                 opOutcome, routeResp>>
  /\ UNCHANGED <<streamVars, pollVars, listVars>>
  /\ command' = CommandOf(opName, args)
  /\ UNCHANGED <<args, cmdRunning>>
  /\ UNCHANGED unitVars

\* run_compose, local: proc.communicate() returned; a non-zero return
\* code raises
check_returncode ==
  /\ req = "op" /\ opPc = "running" /\ hostType = "local"
  /\ opOutcome' = IF cmdExit # 0
                    THEN Raised(FailPrefix(opName, hostType), cmdStderr)
                    ELSE Returned(opOutput)
  /\ opPc' = "ended"
  /\ UNCHANGED <<req, calls, openSessions, opName, hostType, cmdExit,
                 cmdStderr, opOutput, routeResp, cmdsThisCall,
                 reachedThisCall, issued, reached>>
  /\ UNCHANGED <<streamVars, pollVars, listVars>>
  /\ UNCHANGED <<args, command, cmdRunning>>
  /\ UNCHANGED unitVars

\* ---- the route's answer -------------------------------------------------
\* The mutating routes and get_logs turn an exception into HTTP 500 (str(e)
\* as detail); get_images renders the error; list_containers_filtered with
\* a host name swallows it and renders no rows.
RouteAnswer(op, outcome) ==
  IF outcome.kind = "return"
    THEN [code |-> 200, status |-> SuccessStatus(op), detail |-> <<>>,
          body |-> outcome.value]
  ELSE IF op \in MutatingOps \cup {"get_logs"}
    THEN [code |-> 500, status |-> "",
          detail |-> <<outcome.prefix, outcome.text>>, body |-> <<>>]
  ELSE IF op = "list_images"
    THEN [code |-> 200, status |-> "rendered",
          detail |-> <<outcome.prefix, outcome.text>>, body |-> <<>>]
  ELSE [code |-> 200, status |-> "rendered", detail |-> <<>>, body |-> <<>>]

respond ==
  /\ req = "op" /\ opPc = "ended"
  /\ routeResp' = RouteAnswer(opName, opOutcome)
  /\ opPc' = "done"
  /\ req' = "idle"
  /\ UNCHANGED <<calls, openSessions, opName, hostType, cmdExit, cmdStderr,
                 opOutput, opOutcome, cmdsThisCall, reachedThisCall, issued,
                 reached>>
  /\ UNCHANGED <<streamVars, pollVars, listVars>>
  /\ UNCHANGED <<args, command, cmdRunning>>
  /\ UNCHANGED unitVars

OpNext ==
  \/ StartOp
  \/ get_ssh_client
  \/ get_ssh_client_fails
  \/ exec_command
  \/ exec_command_fails
  \/ command_exits
  \/ return_after_exec
  \/ recv_exit_status
  \/ check_exit_status
  \/ read_output
  \/ channel_read_fails
  \/ get_local_client
  \/ get_local_client_fails
  \/ containers_get
  \/ sdk_call
  \/ sdk_read
  \/ create_subprocess_shell
  \/ check_returncode
  \/ respond

\* ------------------------------------------------------------ log stream
\* raw chunks of a log source; the second is not valid UTF-8
Chunks == {"log line", "bytes ff fe"}

\* chunk.decode('utf-8', errors='replace')
Decode(b) == IF b = "bytes ff fe" THEN "U+FFFD U+FFFD" ELSE b

RECURSIVE DecodeAll(_)
DecodeAll(bs) == IF bs = <<>> THEN <<>> ELSE <<Decode(Head(bs))>> \o DecodeAll(Tail(bs))

ErrHostNotFound == "Error: Host not found"
ErrConnection == "Connection error: "
ErrLocalLogs == "Error reading local logs: "
ErrStreaming == "Error streaming from "
ErrorTexts == {ErrHostNotFound, ErrConnection, ErrLocalLogs, ErrStreaming}

\* queue items: a chunk, or the sentinel None
Item(b) == [none |-> FALSE, b |-> b]
Sentinel == [none |-> TRUE, b |-> ""]

\* websocket_logs accepted a websocket
StartStream ==
  /\ CanStart
  /\ req' = "stream"
  /\ calls' = calls + 1
  /\ OpReset
  /\ PollReset
  /\ ListReset
  /\ \E ht \in HostTypes : streamHost' = ht
  /\ hPc' = "lookup"
  /\ hLine' = ""
  /\ gPc' = "none"
  /\ pPc' = "none"
  /\ q' = <<>>
  /\ sessOpen' = FALSE
  /\ subConnected' = TRUE
  /\ produced' = <<>>
  /\ puts' = <<>>
  /\ yielded' = <<>>
  /\ delivered' = <<>>
  /\ failure' = "none"
  /\ srcEOF' = FALSE
  /\ UNCHANGED <<openSessions, issued, reached>>
  /\ UNCHANGED unitVars

\* the subscriber goes away; nothing on the server runs at that moment
disconnect ==
  /\ req = "stream" /\ subConnected
  /\ subConnected' = FALSE
  /\ UNCHANGED <<req, calls, openSessions, opVars, pollVars, listVars, streamHost, hPc, hLine,
                 gPc, pPc, q, sessOpen, produced, puts, yielded, delivered,
                 failure, srcEOF>>
  /\ UNCHANGED unitVars

\* websocket_logs: the host is unknown: one error text, close, return
host_not_found ==
  /\ req = "stream" /\ hPc = "lookup"
  /\ delivered' = IF subConnected THEN Append(delivered, ErrHostNotFound)
                  ELSE delivered
  /\ failure' = "host"
  /\ hPc' = "closed"
  /\ req' = "idle"
  /\ UNCHANGED <<calls, openSessions, opVars, pollVars, listVars, streamHost, hLine, gPc, pPc,
                 q, sessOpen, subConnected, produced, puts, yielded, srcEOF>>
  /\ UNCHANGED unitVars

\* websocket_logs: the host is known: the async for asks stream_logs for
\* its first item
host_found ==
  /\ req = "stream" /\ hPc = "lookup"
  /\ hPc' = "iterating"
  /\ gPc' = "start"
  /\ UNCHANGED <<req, calls, openSessions, opVars, pollVars, listVars, streamHost, hLine, pPc,
                 q, sessOpen, subConnected, produced, puts, yielded, delivered,
                 failure, srcEOF>>
  /\ UNCHANGED unitVars

\* stream_logs, local: get_local_client() returned and the reader thread
\* is started
stream_local_start ==
  /\ hPc = "iterating" /\ gPc = "start" /\ streamHost = "local"
  /\ gPc' = "waiting"
  /\ pPc' = "resolving"
  /\ UNCHANGED <<req, calls, openSessions, opVars, pollVars, listVars, streamHost, hPc, hLine,
                 q, sessOpen, subConnected, produced, puts, yielded, delivered,
                 failure, srcEOF>>
  /\ UNCHANGED unitVars

\* stream_logs, remote: get_ssh_client returned a connected client
stream_connect ==
  /\ hPc = "iterating" /\ gPc = "start" /\ streamHost = "ssh"
  /\ openSessions' = openSessions + 1
  /\ sessOpen' = TRUE
  /\ gPc' = "connected"
  /\ UNCHANGED <<req, calls, opVars, pollVars, listVars, streamHost, hPc, hLine, pPc, q,
                 subConnected, produced, puts, yielded, delivered, failure, srcEOF>>
  /\ UNCHANGED unitVars

\* stream_logs: get_local_client() / get_ssh_client raised before the try:
\* the exception leaves the generator
stream_connect_fails ==
  /\ hPc = "iterating" /\ gPc = "start"
  /\ gPc' = "raised"
  /\ failure' = "connect"
  /\ UNCHANGED <<req, calls, openSessions, opVars, pollVars, listVars, streamHost, hPc, hLine,
                 pPc, q, sessOpen, subConnected, produced, puts, yielded,
                 delivered, srcEOF>>
  /\ UNCHANGED unitVars

\* stream_logs, remote: exec_command returned and the reader thread is
\* started
stream_exec ==
  /\ hPc = "iterating" /\ gPc = "connected"
  /\ gPc' = "waiting"
  /\ pPc' = "reading"
  /\ UNCHANGED <<req, calls, openSessions, opVars, pollVars, listVars, streamHost, hPc, hLine,
                 q, sessOpen, subConnected, produced, puts, yielded, delivered,
                 failure, srcEOF>>
  /\ UNCHANGED unitVars

\* stream_logs, remote: exec_command raised: except Exception yields the
\* error text
stream_exec_fails ==
  /\ hPc = "iterating" /\ gPc = "connected"
  /\ gPc' = "yieldedErr"
  /\ failure' = "exec"
  /\ hLine' = ErrStreaming
  /\ yielded' = Append(yielded, ErrStreaming)
  /\ hPc' = "sending"
  /\ UNCHANGED <<req, calls, openSessions, opVars, pollVars, listVars, streamHost, pPc, q,
                 sessOpen, subConnected, produced, puts, delivered, srcEOF>>
  /\ UNCHANGED unitVars

\* the consumer loop of stream_logs: chunk = q.get(); the sentinel ends the
\* generator (remote: finally closes the session), a chunk is yielded
consumer_get ==
  /\ hPc = "iterating" /\ gPc = "waiting"
  /\ q # <<>>
  /\ q' = Tail(q)
  /\ IF Head(q).none
       THEN /\ gPc' = "done"
            /\ sessOpen' = FALSE
            /\ openSessions' = IF sessOpen THEN openSessions - 1 ELSE openSessions
            /\ UNCHANGED <<hPc, hLine, yielded>>
       ELSE /\ gPc' = "yielded"
            /\ hLine' = Decode(Head(q).b)
            /\ yielded' = Append(yielded, Decode(Head(q).b))
            /\ hPc' = "sending"
            /\ UNCHANGED <<sessOpen, openSessions>>
  /\ UNCHANGED <<req, calls, opVars, pollVars, listVars, streamHost, pPc, subConnected, produced, puts,
                 delivered, failure, srcEOF>>
  /\ UNCHANGED unitVars

\* stream_logs, remote: resumed after the yield of the except clause:
\* finally closes the session and the generator ends
resume_after_error ==
  /\ hPc = "iterating" /\ gPc = "yieldedErr"
  /\ gPc' = "done"
  /\ sessOpen' = FALSE
  /\ openSessions' = IF sessOpen THEN openSessions - 1 ELSE openSessions
  /\ UNCHANGED <<req, calls, opVars, pollVars, listVars, streamHost, hPc, hLine, pPc, q,
                 subConnected, produced, puts, yielded, delivered, failure, srcEOF>>
  /\ UNCHANGED unitVars

\* websocket_logs: await websocket.send_text(line).  With the subscriber
\* gone it raises, the loop is left by break, the generator is dropped
\* (its aclose is scheduled) and finally closes the websocket.
send_text ==
  /\ req = "stream" /\ hPc = "sending"
  /\ IF subConnected
       THEN /\ delivered' = Append(delivered, hLine)
            /\ hPc' = "iterating"
            /\ gPc' = IF gPc = "yielded" THEN "waiting" ELSE gPc
            /\ UNCHANGED req
       ELSE /\ hPc' = "closed"
            /\ gPc' = "abandoned"
            /\ req' = "idle"
            /\ UNCHANGED delivered
  /\ UNCHANGED <<calls, openSessions, opVars, pollVars, listVars, streamHost, hLine, pPc, q,
                 sessOpen, subConnected, produced, puts, yielded, failure, srcEOF>>
  /\ UNCHANGED unitVars

\* websocket_logs: the generator is exhausted: finally closes the websocket
stream_exhausted ==
  /\ req = "stream" /\ hPc = "iterating" /\ gPc = "done"
  /\ hPc' = "closed"
  /\ req' = "idle"
  /\ UNCHANGED <<calls, openSessions, opVars, pollVars, listVars, streamHost, hLine, gPc, pPc,
                 q, sessOpen, subConnected, produced, puts, yielded, delivered,
                 failure, srcEOF>>
  /\ UNCHANGED unitVars

\* websocket_logs: an exception came out of the generator: except Exception
\* sends "Connection error: ..." and finally closes the websocket
stream_exception ==
  /\ req = "stream" /\ hPc = "iterating" /\ gPc = "raised"
  /\ delivered' = IF subConnected THEN Append(delivered, ErrConnection)
                  ELSE delivered
  /\ hPc' = "closed"
  /\ req' = "idle"
  /\ UNCHANGED <<calls, openSessions, opVars, pollVars, listVars, streamHost, hLine, gPc, pPc,
                 q, sessOpen, subConnected, produced, puts, yielded, failure,
                 srcEOF>>
  /\ UNCHANGED unitVars

\* the event loop finalises the dropped generator: GeneratorExit at the
\* yield, which except Exception does not catch; remote: finally closes
\* the session
aclose ==
  /\ gPc = "abandoned"
  /\ gPc' = "closed"
  /\ sessOpen' = FALSE
  /\ openSessions' = IF sessOpen THEN openSessions - 1 ELSE openSessions
  /\ UNCHANGED <<req, calls, opVars, pollVars, listVars, streamHost, hPc, hLine, pPc, q,
                 subConnected, produced, puts, yielded, delivered, failure, srcEOF>>
  /\ UNCHANGED unitVars

\* ---- reader threads ----------------------------------------------------
\* local_reader_thread: client.containers.get(container_id) returned, or
\* raised: except puts the error text and the sentinel
local_resolve ==
  /\ pPc = "resolving"
  /\ \/ /\ pPc' = "reading"
        /\ UNCHANGED <<q, puts, failure>>
     \/ /\ pPc' = "done"
        /\ q' = q \o <<Item(ErrLocalLogs), Sentinel>>
        /\ puts' = puts \o <<Item(ErrLocalLogs), Sentinel>>
        /\ failure' = "resolve"
  /\ UNCHANGED <<req, calls, openSessions, opVars, pollVars, listVars, streamHost, hPc, hLine,
                 gPc, sessOpen, subConnected, produced, yielded, delivered,
                 srcEOF>>
  /\ UNCHANGED unitVars


\* reader_put with the chunk put at the head of the queue
reader_put_front ==
  /\ pPc = "reading"
  /\ streamHost = "ssh" => sessOpen
  /\ Len(produced) < MaxChunks
  /\ \E b \in Chunks :
       /\ q' = <<Item(b)>> \o q
       /\ produced' = Append(produced, b)
       /\ puts' = Append(puts, Item(b))
  /\ UNCHANGED <<req, calls, openSessions, opVars, pollVars, listVars,
                 streamHost, hPc, hLine, gPc, pPc, sessOpen, subConnected,
                 yielded, delivered, failure, srcEOF>>
  /\ UNCHANGED unitVars

\* both reader threads: the source delivered a chunk (the next line of
\* container.logs / stdout.channel.recv(1024) returned data): q.put
reader_put ==
  /\ pPc = "reading"
  /\ streamHost = "ssh" => sessOpen
  /\ Len(produced) < MaxChunks
  /\ \E b \in Chunks :
       /\ q' = Append(q, Item(b))
       /\ produced' = Append(produced, b)
       /\ puts' = Append(puts, Item(b))
  /\ UNCHANGED <<req, calls, openSessions, opVars, pollVars, listVars, streamHost, hPc, hLine,
                 gPc, pPc, sessOpen, subConnected, yielded, delivered,
                 failure, srcEOF>>
  /\ UNCHANGED unitVars

\* both reader threads: the source ended (the log generator is exhausted /
\* recv returned no data): q.put(None)
reader_eof ==
  /\ pPc = "reading"
  /\ streamHost = "ssh" => sessOpen
  /\ q' = Append(q, Sentinel)
  /\ srcEOF' = TRUE
  /\ pPc' = "done"
  /\ puts' = Append(puts, Sentinel)
  /\ UNCHANGED <<req, calls, openSessions, opVars, pollVars, listVars, streamHost, hPc, hLine,
                 gPc, sessOpen, subConnected, produced, yielded, delivered,
                 failure>>
  /\ UNCHANGED unitVars

\* reader_error with the put of the sentinel left out of the exception path
reader_error_no_sentinel ==
  /\ pPc = "reading"
  /\ streamHost = "ssh" => sessOpen
  /\ q' = IF streamHost = "local"
            THEN Append(q, Item(ErrLocalLogs))
            ELSE q
  /\ failure' = "read"
  /\ pPc' = "done"
  /\ puts' = IF streamHost = "local"
               THEN Append(puts, Item(ErrLocalLogs))
               ELSE puts
  /\ UNCHANGED <<req, calls, openSessions, opVars, pollVars, listVars, streamHost, hPc, hLine,
                 gPc, sessOpen, subConnected, produced, yielded, delivered,
                 srcEOF>>
  /\ UNCHANGED unitVars

\* both reader threads: reading raised.  local_reader_thread puts the error
\* text and the sentinel; reader_thread leaves its loop by `except: break`
\* and puts the sentinel only.
reader_error ==
  /\ pPc = "reading"
  /\ streamHost = "ssh" => sessOpen
  /\ q' = IF streamHost = "local"
            THEN q \o <<Item(ErrLocalLogs), Sentinel>>
            ELSE Append(q, Sentinel)
  /\ failure' = "read"
  /\ pPc' = "done"
  /\ puts' = IF streamHost = "local"
               THEN puts \o <<Item(ErrLocalLogs), Sentinel>>
               ELSE Append(puts, Sentinel)
  /\ UNCHANGED <<req, calls, openSessions, opVars, pollVars, listVars, streamHost, hPc, hLine,
                 gPc, sessOpen, subConnected, produced, yielded, delivered,
                 srcEOF>>
  /\ UNCHANGED unitVars

\* reader_thread: the session was closed under it: recv returns no data or
\* raises, the loop is left and the sentinel is put
reader_sees_close ==
  /\ pPc = "reading"
  /\ streamHost = "ssh" /\ ~sessOpen
  /\ q' = Append(q, Sentinel)
  /\ pPc' = "done"
  /\ puts' = Append(puts, Sentinel)
  /\ UNCHANGED <<req, calls, openSessions, opVars, pollVars, listVars, streamHost, hPc, hLine,
                 gPc, sessOpen, subConnected, produced, yielded, delivered,
                 failure, srcEOF>>
  /\ UNCHANGED unitVars

StreamNext ==
  \/ StartStream
  \/ disconnect
  \/ host_not_found
  \/ host_found
  \/ stream_local_start
  \/ stream_connect
  \/ stream_connect_fails
  \/ stream_exec
  \/ stream_exec_fails
  \/ consumer_get
  \/ resume_after_error
  \/ send_text
  \/ stream_exhausted
  \/ stream_exception
  \/ aclose
  \/ local_resolve
  \/ reader_put
  \/ reader_eof
  \/ reader_error
  \/ reader_sees_close

\* --------------------------------------------------------- status poller
\* The hosts of the database, in the order the query returns them, and the
\* records list_containers returns for each when it succeeds (host h runs h
\* containers).  A call of list_containers inside a fan-out is one step: it
\* returns the host's records or raises, its session opened and closed.
Hosts == 1..MaxHosts
RecordsOf(h) == [i \in 1..h |-> [host |-> h, id |-> i]]

\* the records of the hosts of `ok`, host by host in host order
RECURSIVE Aggregate(_, _)
Aggregate(h, ok) ==
  IF h > MaxHosts THEN <<>>
  ELSE (IF h \in ok THEN RecordsOf(h) ELSE <<>>) \o Aggregate(h + 1, ok)

\* websocket_container_status accepted a websocket
StartPoll ==
  /\ CanStart
  /\ req' = "poll"
  /\ calls' = calls + 1
  /\ OpReset
  /\ StreamReset
  /\ ListReset
  /\ plPc' = "load"
  /\ tick' = 1
  /\ hostIdx' = 0
  /\ up' = {}
  /\ all_containers' = <<>>
  /\ jsonBound' = FALSE
  /\ pollSub' = TRUE
  /\ lastEvent' = NoEvent
  /\ cycleFailed' = FALSE
  /\ UNCHANGED <<openSessions, issued, reached>>
  /\ UNCHANGED unitVars

\* the poller's subscriber goes away
poll_disconnect ==
  /\ req = "poll" /\ pollSub
  /\ pollSub' = FALSE
  /\ UNCHANGED <<req, calls, openSessions, opVars, streamVars, listVars,
                 plPc, tick, hostIdx, up, all_containers, jsonBound,
                 lastEvent, cycleFailed>>
  /\ UNCHANGED unitVars

\* top of the while loop: db.execute(select(DockerHost)) returned the hosts;
\* which of them answer in this cycle is fixed here
load_hosts ==
  /\ req = "poll" /\ plPc = "load"
  /\ \E ok \in SUBSET Hosts : up' = ok
  /\ hostIdx' = 1
  /\ all_containers' = <<>>
  /\ cycleFailed' = FALSE
  /\ plPc' = "hosts"
  /\ UNCHANGED <<req, calls, openSessions, opVars, streamVars, listVars,
                 tick, jsonBound, pollSub, lastEvent>>
  /\ UNCHANGED unitVars

\* db.execute raised: control goes to `except Exception as e`
load_hosts_fails ==
  /\ req = "poll" /\ plPc = "load"
  /\ cycleFailed' = TRUE
  /\ plPc' = "except"
  /\ UNCHANGED <<req, calls, openSessions, opVars, streamVars, listVars,
                 tick, hostIdx, up, all_containers, jsonBound, pollSub,
                 lastEvent>>
  /\ UNCHANGED unitVars


\* poll_host with the host's exception reaching the outer except clause
poll_host_abort ==
  /\ req = "poll" /\ plPc = "hosts"
  /\ hostIdx <= MaxHosts
  /\ IF hostIdx \in up
       THEN /\ all_containers' = all_containers \o RecordsOf(hostIdx)
            /\ hostIdx' = hostIdx + 1
            /\ UNCHANGED <<plPc, cycleFailed>>
       ELSE /\ plPc' = "except"
            /\ cycleFailed' = TRUE
            /\ UNCHANGED <<all_containers, hostIdx>>
  /\ UNCHANGED <<req, calls, openSessions, opVars, streamVars, listVars,
                 tick, up, jsonBound, pollSub, lastEvent>>
  /\ UNCHANGED unitVars

\* one round of `for host in hosts`: list_containers returns and the
\* records are appended, or it raises and `except Exception: pass`
poll_host ==
  /\ req = "poll" /\ plPc = "hosts"
  /\ hostIdx <= MaxHosts
  /\ all_containers' = IF hostIdx \in up
                         THEN all_containers \o RecordsOf(hostIdx)
                         ELSE all_containers
  /\ hostIdx' = hostIdx + 1
  /\ UNCHANGED <<req, calls, openSessions, opVars, streamVars, listVars,
                 plPc, tick, up, jsonBound, pollSub, lastEvent, cycleFailed>>
  /\ UNCHANGED unitVars

\* after the for loop: `import json` binds the local name, then
\* websocket.send_text(status_update).  With the subscriber gone the send
\* raises WebSocketDisconnect (break) or another exception (except clause).
send_status ==
  /\ req = "poll" /\ plPc = "hosts"
  /\ hostIdx > MaxHosts
  /\ jsonBound' = TRUE
  /\ IF pollSub
       THEN /\ lastEvent' = [type |-> "status_update", containers |-> all_containers]
            /\ plPc' = "sleep"
            /\ UNCHANGED cycleFailed
       ELSE /\ \E disc \in BOOLEAN :
                 /\ plPc' = IF disc THEN "ended" ELSE "except"
                 /\ cycleFailed' = ~disc
            /\ UNCHANGED lastEvent
  /\ UNCHANGED <<req, calls, openSessions, opVars, streamVars, listVars,
                 tick, hostIdx, up, all_containers, pollSub>>
  /\ UNCHANGED unitVars

\* `except Exception as e`: send the error event.  json is a local name of
\* the function (it is imported inside the loop body): while it is unbound
\* json.dumps raises UnboundLocalError, which the bare except answers with
\* break, as it does a failed send.
except_clause ==
  /\ req = "poll" /\ plPc = "except"
  /\ IF jsonBound /\ pollSub
       THEN /\ lastEvent' = [type |-> "error", containers |-> <<>>]
            /\ plPc' = "sleep"
       ELSE /\ plPc' = "ended"
            /\ UNCHANGED lastEvent
  /\ UNCHANGED <<req, calls, openSessions, opVars, streamVars, listVars,
                 tick, hostIdx, up, all_containers, jsonBound, pollSub,
                 cycleFailed>>
  /\ UNCHANGED unitVars

\* asyncio.sleep(5) is over: next cycle
sleep_over ==
  /\ req = "poll" /\ plPc = "sleep"
  /\ tick < MaxTicks
  /\ tick' = tick + 1
  /\ plPc' = "load"
  /\ UNCHANGED <<req, calls, openSessions, opVars, streamVars, listVars,
                 hostIdx, up, all_containers, jsonBound, pollSub, lastEvent,
                 cycleFailed>>
  /\ UNCHANGED unitVars

\* the loop was left by break: finally closes the websocket
poll_finally ==
  /\ req = "poll" /\ plPc = "ended"
  /\ plPc' = "closed"
  /\ req' = "idle"
  /\ UNCHANGED <<calls, openSessions, opVars, streamVars, listVars, tick,
                 hostIdx, up, all_containers, jsonBound, pollSub, lastEvent,
                 cycleFailed>>
  /\ UNCHANGED unitVars

PollNext ==
  \/ StartPoll
  \/ poll_disconnect
  \/ load_hosts
  \/ load_hosts_fails
  \/ poll_host
  \/ send_status
  \/ except_clause
  \/ sleep_over
  \/ poll_finally

\* ------------------------------------------------------ multi-host listing
\* list_containers_filtered without host_name: the hosts are loaded
StartList ==
  /\ CanStart
  /\ req' = "list"
  /\ calls' = calls + 1
  /\ OpReset
  /\ StreamReset
  /\ PollReset
  /\ \E ok \in SUBSET Hosts : lsUp' = ok
  /\ lsIdx' = 1
  /\ containers' = <<>>
  /\ lsResp' = NoContext
  /\ lsPc' = "hosts"
  /\ UNCHANGED <<openSessions, issued, reached>>
  /\ UNCHANGED unitVars

\* one round of `for host in hosts`: the records are appended, or
\* list_containers raises and `except Exception: pass`
list_host ==
  /\ req = "list" /\ lsPc = "hosts"
  /\ lsIdx <= MaxHosts
  /\ containers' = IF lsIdx \in lsUp
                     THEN containers \o RecordsOf(lsIdx)
                     ELSE containers
  /\ lsIdx' = lsIdx + 1
  /\ UNCHANGED <<req, calls, openSessions, opVars, streamVars, pollVars,
                 lsPc, lsUp, lsResp>>
  /\ UNCHANGED unitVars

\* the template context of the answer: the rows, and no error entries
list_render ==
  /\ req = "list" /\ lsPc = "hosts"
  /\ lsIdx > MaxHosts
  /\ lsResp' = [rendered |-> TRUE, containers |-> containers, errors |-> <<>>]
  /\ lsPc' = "done"
  /\ req' = "idle"
  /\ UNCHANGED <<calls, openSessions, opVars, streamVars, pollVars, lsIdx,
                 lsUp, containers>>
  /\ UNCHANGED unitVars

ListNext ==
  \/ StartList
  \/ list_host
  \/ list_render

Next ==
  \/ OpNext
  \/ PollNext
  \/ ListNext
  \/ StreamNext

Spec == Init /\ [][Next]_vars

\* Every step of the server's own code is taken once it can be taken: the
\* event loop runs ready coroutines and the threads run.  The log source
\* (reader_put, reader_eof, reader_error), the subscriber (disconnect) and
\* the arrival of requests are not under the server's control.
Fairness ==
  /\ WF_vars(host_not_found \/ host_found)
  /\ WF_vars(stream_local_start \/ stream_connect \/ stream_connect_fails)
  /\ WF_vars(stream_exec \/ stream_exec_fails)
  /\ WF_vars(consumer_get)
  /\ WF_vars(resume_after_error)
  /\ WF_vars(send_text)
  /\ WF_vars(stream_exhausted)
  /\ WF_vars(stream_exception)
  /\ WF_vars(aclose)
  /\ WF_vars(local_resolve)
  /\ WF_vars(reader_sees_close)

FairSpec == Spec /\ Fairness

\* ------------------------------------------------ format_container inputs
\* The payloads the two backends hand to format_container: the attrs of an
\* SDK container (inspect shape), the dict list_containers builds from a
\* `docker ps` JSON object, and a CLI JSON object passed as it is.

S_isoLong == <<"2", "0", "2", "6", "-", "0", "1", "-", "2", "7", "T",
               "2", "2", ":", "0", "0", ":", "1", "3", ".",
               "2", "5", "7", "6", "5", "2", "0", "9", "9",
               "Z">>
S_isoZ == <<"2", "0", "2", "6", "-", "0", "1", "-", "2", "7", "T", "2",
            "2", ":", "0", "0", ":", "1", "3", "Z">>
S_isoBare == <<"2", "0", "2", "6", "-", "0", "1", "-", "2", "7", "T",
               "2", "2", ":", "0", "0", ":", "1", "3">>
S_isoOffset == <<"2", "0", "2", "6", "-", "0", "1", "-", "2", "7", "T",
                 "2", "2", ":", "0", "0", ":", "1", "3",
                 "+", "0", "0", ":", "0", "0">>
S_isoFrac == <<"2", "0", "2", "6", "-", "0", "1", "-", "2", "7", "T",
               "2", "2", ":", "0", "0", ":", "1", "3", ".",
               "2", "5">>
S_hostPort == <<"8", "0", "8", "0">>
S_hostIp == <<"0", ".", "0", ".", "0", ".", "0">>
S_RUNNING == <<"R", "U", "N", "N", "I", "N", "G">>
S_Running == <<"R", "u", "n", "n", "i", "n", "g">>
S_exited == <<"e", "x", "i", "t", "e", "d">>
S_garbage == <<"n", "o", "t", " ", "a", " ", "d", "a", "t", "e">>

\* seconds between the start of a container and now
Ages == {d * 86400 + h * 3600 + m * 60 + s :
           d \in 0..MaxDays, h \in {0, 1, 3, 23}, m \in {0, 1, 30, 59},
           s \in {0, 30, 59}}

\* NetworkSettings.Ports of an inspect payload: one published port
PublishedPorts ==
  Dict(<<[port |-> S_port,
          bindings |-> List(<<Dict([HostIp |-> Str(S_hostIp),
                                    HostPort |-> Str(S_hostPort)])>>)]>>)
\* one exposed port without a binding
ExposedPorts == Dict(<<[port |-> S_port, bindings |-> None]>>)

ComposeLabels == Dict([k \in {S_WorkingDirKey} |-> Str(S_srvApp)])

\* the attrs of a running container as the SDK returns them
BaseAttrs ==
  [Id |-> Str(S_id1),
   Name |-> Str(S_web),
   Config |-> Dict([Image |-> Str(S_nginx), Labels |-> ComposeLabels]),
   State |-> Dict([Status |-> Str(S_running), StartedAt |-> IsoAt(5400)]),
   NetworkSettings |-> Dict([Ports |-> PublishedPorts]),
   Created |-> Str(S_isoLong)]

\* base with each key of keys present, null or absent as how[key] says
Partial(base, how) ==
  [k \in {x \in DOMAIN base : x \notin DOMAIN how \/ how[x] # "absent"} |->
     IF k \in DOMAIN how /\ how[k] = "null" THEN None ELSE base[k]]

Presence == {"present", "null", "absent"}

\* attrs with any subset of the top-level keys null or absent
PartialAttrs == {Partial(BaseAttrs, how) : how \in [DOMAIN BaseAttrs -> Presence]}

\* the State dict of an inspect payload
StateDicts ==
  {Dict(Partial([Status |-> st, StartedAt |-> at], how)) :
     st \in {Str(S_running), Str(S_RUNNING), Str(S_Running), Str(S_exited),
             Str(S_Exited)},
     at \in {IsoAt(a) : a \in Ages} \cup {Str(S_garbage)},
     how \in [{"Status", "StartedAt"} -> {"present", "absent"}]}

StateAttrs == {[BaseAttrs EXCEPT !["State"] = sd] : sd \in StateDicts}

CreatedTexts == {S_isoLong, S_isoZ, S_isoBare, S_isoOffset, S_isoFrac, S_cliTime}

CreatedAttrs == {[BaseAttrs EXCEPT !["Created"] = Str(t)] : t \in CreatedTexts}

\* container ports of a port map
S_port443 == <<"4", "4", "3", "/", "t", "c", "p">>
S_port53 == <<"5", "3", "/", "u", "d", "p">>
PortNames == {S_port, S_port443, S_port53}

\* host bindings: IPv4, IPv6, one without a host port, an empty one
Bind4 == Dict([HostIp |-> Str(S_hostIp), HostPort |-> Str(S_hostPort)])
Bind6 == Dict([HostIp |-> Str(<<":", ":">>), HostPort |-> Str(S_hostPort)])
BindNoPort == Dict([HostIp |-> Str(S_hostIp)])
BindEmpty == Dict(<<>>)

\* the value a port map holds for one container port
BindingLists ==
  {None, List(<<>>), List(<<Bind4>>), List(<<Bind4, Bind6>>),
   List(<<BindNoPort>>), List(<<Bind4, BindNoPort>>), List(<<BindEmpty>>)}

\* the items of a dict of at most n container ports, in insertion order
RECURSIVE PortItems(_, _)
PortItems(names, n) ==
  IF n = 0 THEN {<<>>}
  ELSE {<<>>} \cup
       UNION {{<<[port |-> p, bindings |-> b]>> \o rest :
                 b \in BindingLists, rest \in PortItems(names \ {p}, n - 1)} :
              p \in names}

PortMaps == {Dict(items) : items \in PortItems(PortNames, MaxPorts)}

PortAttrs ==
  {[BaseAttrs EXCEPT !["NetworkSettings"] = Dict([Ports |-> p])] :
     p \in {PublishedPorts, ExposedPorts, Dict(<<>>), None} \cup PortMaps}

InspectPayloads == PartialAttrs \cup StateAttrs \cup CreatedAttrs \cup PortAttrs

\* ---- `docker ps` JSON objects ------------------------------------------
\* what `docker ps` prints for one published port
S_cliPorts == <<"0", ".", "0", ".", "0", ".", "0", ":", "8", "0", "8",
                "0", "-", ">", "8", "0", "/", "t", "c", "p">>

\* label strings: comma-separated segments
Seg_a == <<"a", "=", "1">>
Seg_b == <<"b", "=", "2">>
Seg_bad == <<"b", "a", "d", "s", "e", "g", "m", "e", "n", "t">>
Seg_spaced == <<" ">> \o S_WorkingDirKey \o <<" ", "=", " ">> \o S_srvApp \o <<" ">>
Seg_other == <<"x">> \o S_WorkingDirKey \o <<"=", "/", "o", "p", "t">>
Segments == {Seg_a, Seg_b, Seg_bad, Seg_wd, Seg_spaced, Seg_other}

\* ",".join(parts)
RECURSIVE JoinSegs(_)
JoinSegs(parts) ==
  IF Len(parts) = 1 THEN parts[1]
  ELSE parts[1] \o <<",">> \o JoinSegs(Tail(parts))

LabelStrings ==
  {JoinSegs(parts) : parts \in UNION {[1..k -> Segments] : k \in 1..MaxSegs}}

\* a complete `docker ps --format '{{json .}}'` object
BaseCli ==
  [ID |-> Str(S_id1), Names |-> Str(S_web), Image |-> Str(S_nginx),
   State |-> Str(S_running), Status |-> Str(S_Up2h), Ports |-> Str(S_cliPorts),
   CreatedAt |-> Str(S_cliTime), Labels |-> Str(Seg_wd)]

\* objects with any subset of the keys the remote listing copies null or absent
PartialCli ==
  {Partial(BaseCli, how) :
     how \in [{"ID", "Names", "Image", "State", "Status", "Ports", "CreatedAt"}
                -> Presence]}

\* objects whose Labels is a label string, a map or null
LabelledCli ==
  {[BaseCli EXCEPT !["Labels"] = Str(ls)] : ls \in LabelStrings}
  \cup {[BaseCli EXCEPT !["Labels"] = ComposeLabels],
        [BaseCli EXCEPT !["Labels"] = None]}

\* ---- one container seen through both wire shapes ------------------------
\* A container: its name, image, state and port (unbound, or published on
\* S_hostIp:S_hostPort).
Descs ==
  [name : {<<"w", "e", "b">>, S_db}, image : {S_nginx},
   state : {S_running, S_exited}, ports : {"none", "exposed", "published"}]

\* the attrs the SDK returns for the container
InspectOf(d) ==
  [Id |-> Str(S_id1),
   Name |-> Str(<<"/">> \o d.name),
   Config |-> Dict([Image |-> Str(d.image), Labels |-> ComposeLabels]),
   State |-> Dict([Status |-> Str(d.state), StartedAt |-> IsoAt(5400)]),
   NetworkSettings |->
     Dict([Ports |-> CASE d.ports = "published" -> PublishedPorts
                       [] d.ports = "exposed" -> ExposedPorts
                       [] OTHER -> Dict(<<>>)]),
   Created |-> Str(S_isoLong)]

\* the object `docker ps` prints for the container
CliOf(d) ==
  [ID |-> Str(S_id1), Names |-> Str(d.name), Image |-> Str(d.image),
   State |-> Str(d.state),
   Status |-> Str(IF d.state = S_running THEN S_Up2h ELSE S_Exited),
   Ports |-> Str(CASE d.ports = "published" -> S_cliPorts
                   [] d.ports = "exposed" -> S_port
                   [] OTHER -> <<>>),
   CreatedAt |-> Str(S_cliTime), Labels |-> Str(Seg_wd)]

\* ---- format_container applied to one payload ----------------------------
\* local backend: c.attrs of a container of client.containers.list
attrs_from_sdk ==
  /\ fcPc = "idle"
  /\ \E a \in InspectPayloads \cup {InspectOf(d) : d \in Descs} : payload' = a
  /\ source' = "inspect"
  /\ fcPc' = "input"
  /\ UNCHANGED record
  /\ UNCHANGED <<serverVars, sshVars>>

\* remote backend: the dict built from one `docker ps` JSON object
remapped_from_line ==
  /\ fcPc = "idle"
  /\ \E data \in PartialCli \cup {CliOf(d) : d \in Descs} :
       payload' = Remapped(data)
  /\ source' = "cli"
  /\ fcPc' = "input"
  /\ UNCHANGED record
  /\ UNCHANGED <<serverVars, sshVars>>

\* a `docker ps` JSON object passed as it is
raw_cli_object ==
  /\ fcPc = "idle"
  /\ \E data \in LabelledCli : payload' = data
  /\ source' = "raw"
  /\ fcPc' = "input"
  /\ UNCHANGED record
  /\ UNCHANGED <<serverVars, sshVars>>

call_format_container ==
  /\ fcPc = "input"
  /\ record' = format_container("h", payload)
  /\ fcPc' = "done"
  /\ UNCHANGED <<source, payload>>
  /\ UNCHANGED <<serverVars, sshVars>>

FcNext ==
  \/ attrs_from_sdk
  \/ remapped_from_line
  \/ raw_cli_object
  \/ call_format_container

FcSpec == Init /\ [][FcNext]_vars

\* ---- get_ssh_client called for one host row ----------------------------
\* a route loaded the DockerHost row of a remote host
route_loads_host ==
  /\ sshPc = "idle"
  /\ \E h \in HostRows : host' = h
  /\ sshPc' = "host"
  /\ UNCHANGED connect_kwargs
  /\ UNCHANGED <<serverVars, fcVars>>

\* get_ssh_client built connect_kwargs and called client.connect with them
client_connect ==
  /\ sshPc = "host"
  /\ connect_kwargs' = ConnectKwargs(host)
  /\ sshPc' = "called"
  /\ UNCHANGED host
  /\ UNCHANGED <<serverVars, fcVars>>

SshNext ==
  \/ route_loads_host
  \/ client_connect

SshSpec == Init /\ [][SshNext]_vars

\* ================================================================== claims
IsPrefix(a, b) == Len(a) <= Len(b) /\ SubSeq(b, 1, Len(a)) = a

\* C1: a stream whose reader thread emits k chunks and then reaches
\* end-of-stream yields exactly those k chunks (decoded), in the order they
\* were read, nothing else, and the generator then ends: while nothing
\* failed the yielded texts are a prefix of the chunks read, an exhausted
\* generator has yielded all of them, and after end-of-stream the generator
\* always gets to its end.
C1_EofDeliversAllThenEnds ==
  /\ [](failure = "none" => IsPrefix(yielded, DecodeAll(produced)))
  /\ [](srcEOF /\ failure = "none" /\ gPc = "done"
          => yielded = DecodeAll(produced))
  /\ ((srcEOF /\ failure = "none") ~> (gPc \in {"done", "closed"}))

C1_Witness ==
  /\ gPc = "done" /\ srcEOF /\ failure = "none"
  /\ Len(produced) >= 2 /\ produced[1] # produced[2]
  /\ yielded = DecodeAll(produced)
  /\ delivered = yielded

\* C2: once the subscriber of a log stream has disconnected, the reader
\* thread eventually stops and the stream's SSH session is eventually
\* closed.
C2_DisconnectStopsReader ==
  (~subConnected /\ pPc \in {"resolving", "reading"})
    ~> (pPc = "done" /\ ~sessOpen)

\* C3: a log stream hit by a terminal failure that is not the subscriber's
\* disconnect has delivered an error text as its last chunk when the
\* websocket is closed.
C3_FailureEndsWithErrorChunk ==
  (hPc = "closed" /\ failure # "none" /\ subConnected)
    => (delivered # <<>> /\ delivered[Len(delivered)] \in ErrorTexts)

\* C4: when every remote operation has left its method (returned, raised,
\* or its generator was exhausted or finalised) no SSH session is open;
\* a session is open only inside the operation that connected it.
AllExited ==
  /\ opPc \in {"idle", "start", "client", "got", "ended", "done"}
  /\ gPc \in {"none", "start", "raised", "done", "closed"}

C4_SessionsClosed ==
  /\ openSessions \in {0, 1}
  /\ AllExited => openSessions = 0
  /\ sessOpen => gPc \in {"connected", "waiting", "yielded", "yieldedErr", "abandoned"}

C4_Witness ==
  /\ opPc = "ended" /\ hostType = "ssh"
  /\ opOutcome = Raised("", "transport error")
  /\ cmdExit >= 0
  /\ openSessions = 0

\* C5: in every poll cycle the records collected are exactly those of the
\* hosts that answered, host by host in host order; a host's failure never
\* takes the cycle to the except clause, and the snapshot sent at the end
\* of the cycle is that aggregate, whatever number of hosts failed.
C5_SnapshotOfAnsweringHosts ==
  /\ plPc = "hosts"
       => all_containers = Aggregate(1, up \cap (1..(hostIdx - 1)))
  /\ plPc = "except" => hostIdx \notin 1..MaxHosts
  /\ (plPc = "sleep" /\ ~cycleFailed)
       => lastEvent = [type |-> "status_update", containers |-> Aggregate(1, up)]

C5_Witness ==
  /\ plPc = "sleep" /\ ~cycleFailed
  /\ up # {} /\ up # Hosts
  /\ lastEvent = [type |-> "status_update", containers |-> Aggregate(1, up)]

\* C6: the status poller ends only when its subscriber is gone; any other
\* failure of a cycle is answered with an error event and the next tick.
C6_PollerEndsOnlyOnDisconnect ==
  /\ plPc \in {"ended", "closed"} => ~pollSub
  /\ (plPc = "sleep" /\ cycleFailed) => lastEvent.type = "error"

\* C7: a multi-host listing answers with the records of every host that
\* answered plus one error entry for each host that did not, and is never
\* empty when a host failed.
C7_FailedHostReported ==
  (lsPc = "done" /\ lsUp # {} /\ lsUp # Hosts)
    => /\ lsResp.containers = Aggregate(1, lsUp)
       /\ Len(lsResp.errors) = Cardinality(Hosts \ lsUp)

\* C8: a mutating operation on a remote host whose command exited non-zero
\* raises an error carrying the command's standard-error text, and its
\* route answers 500, never a success status.
C8_NonZeroExitIsAnError ==
  (/\ opPc = "done" /\ hostType = "ssh" /\ opName \in MutatingOps
   /\ cmdExit > 0 /\ opOutcome.text # "transport error")
    => /\ opOutcome.kind = "raise"
       /\ opOutcome.text = cmdStderr
       /\ routeResp.code = 500

ObjectLines(lines) == SelectSeq(lines, LAMBDA l : l.json = "obj")

C10_OneRecordPerValidLine ==
  (/\ opPc = "ended" /\ hostType = "ssh"
   /\ opName \in {"list_containers", "list_images"}
   /\ opOutcome.text # "transport error"
   /\ \A i \in 1..Len(opOutput) : opOutput[i].json \in {"obj", "bad", "bytes"}
   /\ \E i \in 1..Len(opOutput) : opOutput[i].json \in {"bad", "bytes"})
    => /\ opOutcome.kind = "return"
       /\ Len(opOutcome.value) = Len(ObjectLines(opOutput))
       /\ \A i \in 1..Len(opOutcome.value) :
            opOutcome.value[i].id = Str(Take(ObjectLines(opOutput)[i].obj["ID"].v, 12))

\* ---------------------------------------------------------------- C11
\* C11: format_container never raises: whatever subset of the fields of
\* the payload is absent or null, also in the dict the remote listing builds
\* from a JSON line without ID, Names or CreatedAt, it returns one record
\* with all nine fields.
NineFields == {"id", "name", "image", "state", "status", "ports", "created",
               "host", "compose_path"}

C11_FormatNeverRaises ==
  fcPc = "done" => (record.t = "record" /\ DOMAIN record.v = NineFields)

\* ---------------------------------------------------------------- C12
\* C12: a payload without a supplied status string whose state is not
\* "running" (in any letter case) gets the status text "Exited", with or
\* without a start timestamp.
NoSuppliedStatus(p) == ~Truthy(Get(p, "Status"))
StateText(p) == IF FcState(p).t = "str" THEN Lower(FcState(p).v) ELSE <<>>

\* the payload names a state token
StateGiven(p) ==
  /\ "State" \in DOMAIN p /\ FcState(p).t = "str"
  /\ p["State"].t = "dict" => "Status" \in DOMAIN p["State"].v
\* no start timestamp, or one that parses
StartAbsentOrReadable(p) ==
  \/ p["State"].t # "dict"
  \/ "StartedAt" \notin DOMAIN p["State"].v
  \/ "age" \in DOMAIN p["State"].v["StartedAt"]

C12_NonRunningIsExited ==
  (/\ fcPc = "done" /\ record.t = "record"
   /\ NoSuppliedStatus(payload)
   /\ StateGiven(payload) /\ StateText(payload) # S_running
   /\ StartAbsentOrReadable(payload))
    => record.v.status = Str(S_Exited)

\* ---------------------------------------------------------------- C13
\* C13: a running container (any letter case) without a supplied status that
\* started d >= 0 whole seconds ago gets "Up N days" with N = d div 86400
\* when N > 0, else "Up N hours" with N = d div 3600 when N > 0, else
\* "Up N mins" with N = d div 60 when N > 0, else "Up < 1 min"; 90 minutes
\* give "Up 1 hours", 30 seconds "Up < 1 min", 2 days 3 hours "Up 2 days".
S_Up1hours == <<"U", "p", " ", "1", " ", "h", "o", "u", "r", "s">>
S_Up2days == <<"U", "p", " ", "2", " ", "d", "a", "y", "s">>

ExpectedUptime(d) ==
  IF d \div 86400 > 0
    THEN <<"U", "p", " ">> \o Digits(d \div 86400) \o <<" ", "d", "a", "y", "s">>
  ELSE IF d \div 3600 > 0
    THEN <<"U", "p", " ">> \o Digits(d \div 3600) \o <<" ", "h", "o", "u", "r", "s">>
  ELSE IF d \div 60 > 0
    THEN <<"U", "p", " ">> \o Digits(d \div 60) \o <<" ", "m", "i", "n", "s">>
  ELSE S_UpLt1Min

\* the payload is a running container with a readable start time
RunningSince(p) ==
  /\ NoSuppliedStatus(p)
  /\ "State" \in DOMAIN p /\ p["State"].t = "dict"
  /\ StateText(p) = S_running
  /\ "StartedAt" \in DOMAIN p["State"].v
  /\ "age" \in DOMAIN p["State"].v["StartedAt"]

StartedAgo(p) == p["State"].v["StartedAt"].age

C13_UptimeBuckets ==
  (fcPc = "done" /\ record.t = "record" /\ RunningSince(payload))
    => /\ record.v.status = Str(ExpectedUptime(StartedAgo(payload)))
       /\ StartedAgo(payload) = 5400 => record.v.status = Str(S_Up1hours)
       /\ StartedAgo(payload) = 30 => record.v.status = Str(S_UpLt1Min)
       /\ StartedAgo(payload) = 183600 => record.v.status = Str(S_Up2days)

C13_Witness ==
  /\ fcPc = "done" /\ record.t = "record" /\ RunningSince(payload)
  /\ FcState(payload) = Str(S_RUNNING)
  /\ StartedAgo(payload) = 183600
  /\ record.v.status = Str(S_Up2days)

\* ---------------------------------------------------------------- C14
\* C14: the inspect payload and the remapped `docker ps` payload of the same
\* container give records with the same name, image, state, ports and
\* created.
Compared == {"name", "image", "state", "ports", "created"}

C14_ShapesAgree ==
  \A d \in Descs :
    (fcPc = "done" /\ source = "cli" /\ payload = Remapped(CliOf(d)))
      => /\ record.t = "record"
         /\ format_container("h", InspectOf(d)).t = "record"
         /\ \A f \in Compared :
              record.v[f] = format_container("h", InspectOf(d)).v[f]

\* ---------------------------------------------------------------- C15
\* C15: for a label string the compose path is the trimmed value of the
\* segment whose key is com.docker.compose.project.working_dir, and the
\* empty string when no segment has that key; a segment without "=" is
\* ignored and changes nothing.
SegKey(seg) == Strip(SubSeq(seg, 1, FindChFrom(seg, "=", 1) - 1))
SegValue(seg) == Strip(SubSeq(seg, FindChFrom(seg, "=", 1) + 1, Len(seg)))

\* the values of the segments of raw whose key is the working-dir key
WorkingDirValues(raw) ==
  LET parts == Split(raw, ",")
  IN {SegValue(parts[i]) : i \in {j \in 1..Len(parts) :
                                   /\ FindChFrom(parts[j], "=", 1) # 0
                                   /\ SegKey(parts[j]) = S_WorkingDirKey}}

C15_ComposePathOfExactKey ==
  (/\ fcPc = "done" /\ source = "raw" /\ record.t = "record"
   /\ payload["Labels"].t = "str")
    => IF WorkingDirValues(payload["Labels"].v) = {}
         THEN record.v.compose_path = Str(<<>>)
         ELSE record.v.compose_path.v \in WorkingDirValues(payload["Labels"].v)

\* ---------------------------------------------------------------- C16
\* C16: a container listed from a remote host whose `docker ps` line has a
\* Labels field with com.docker.compose.project.working_dir=<dir> gets the
\* compose path <dir>.
C16_RemoteLabelsReachNormalizer ==
  (/\ opName = "list_containers" /\ hostType = "ssh" /\ opPc = "ended"
   /\ opOutcome.kind = "return")
    => \A i \in 1..Len(ObjectLines(opOutput)) :
         LET obj == ObjectLines(opOutput)[i].obj
         IN ("Labels" \in DOMAIN obj /\ obj["Labels"].t = "str"
             /\ WorkingDirValues(obj["Labels"].v) # {})
              => opOutcome.value[i].compose_path.v
                   \in WorkingDirValues(obj["Labels"].v)

\* ---------------------------------------------------------------- C17
\* C17: the created field of a record built from an ISO-8601 or CLI
\* creation timestamp has the form YYYY-MM-DD HH:MM:SS: at most 19
\* characters, second precision, a space and no "T" between date and time.
DigitChars == {"0", "1", "2", "3", "4", "5", "6", "7", "8", "9"}

IsDateTime(s) ==
  /\ Len(s) = 19
  /\ \A i \in 1..19 :
       CASE i \in {5, 8} -> s[i] = "-"
         [] i = 11 -> s[i] = " "
         [] i \in {14, 17} -> s[i] = ":"
         [] OTHER -> s[i] \in DigitChars

C17_CreatedIsDateTime ==
  (/\ fcPc = "done" /\ source = "inspect" /\ record.t = "record"
   /\ "Created" \in DOMAIN payload /\ payload["Created"].t = "str"
   /\ payload["Created"].v \in CreatedTexts)
    => IsDateTime(record.v.created.v)

\* ---------------------------------------------------------------- C18
\* C18: get_ssh_client passes the password and no key file whenever the host
\* has a non-empty password, also when a key-file path is set; it passes the
\* key file only when the password is empty and a key-file path is set; the
\* connection parameters never carry both.
C18_PasswordPreferred ==
  sshPc = "called"
    => /\ host.ssh_password # ""
            => /\ "password" \in DOMAIN connect_kwargs
               /\ connect_kwargs["password"].s = host.ssh_password
               /\ "key_filename" \notin DOMAIN connect_kwargs
       /\ "key_filename" \in DOMAIN connect_kwargs
            <=> (host.ssh_password = "" /\ host.ssh_key_path # "")
       /\ "key_filename" \in DOMAIN connect_kwargs
            => connect_kwargs["key_filename"].s = host.ssh_key_path
       /\ ~({"password", "key_filename"} \subseteq DOMAIN connect_kwargs)

C18_Witness ==
  /\ sshPc = "called"
  /\ host.ssh_password # "" /\ host.ssh_key_path # ""
  /\ "password" \in DOMAIN connect_kwargs

\* ---------------------------------------------------------------- C19
\* C19: get_logs with a search term returns, on the local and on the remote
\* backend, exactly the lines of the fetched log, stdout and stderr alike,
\* that contain the term as a case-insensitive substring, in their order.
C19_SearchFiltersAllLines ==
  (/\ opName = "get_logs" /\ opPc = "ended"
   /\ opOutcome.kind = "return" /\ opOutcome.value # <<S_ErrFetching>>
   /\ args.search # <<>>)
    => opOutcome.value
         = SelectSeq(TextsOf(opOutput, {"stdout", "stderr"}),
                     LAMBDA line : Contains(line, args.search))

\* ---------------------------------------------------------------- C20
\* C20: run_compose changes into the given directory and runs
\* `docker compose up -d` for action up or `docker compose down` for action
\* down, locally and over SSH; a non-zero exit raises a failure carrying the
\* captured error output, a zero exit returns the captured standard output.
C20_ComposeCommandAndExit ==
  (/\ opName = "run_compose" /\ opPc = "ended" /\ cmdExit # -1
   /\ opOutcome.text # "transport error")
    => /\ command = "cd " \o args.path \o " && docker compose "
                      \o (IF args.action = "up" THEN "up -d" ELSE "down")
       /\ cmdExit # 0 => (opOutcome.kind = "raise" /\ opOutcome.text = cmdStderr)
       /\ cmdExit = 0 => opOutcome = Returned(opOutput)

\* ---------------------------------------------------------------- C21
\* C21: for a structured port map the ports text holds one entry
\* hostPort->port per host binding and the bare port for a container port
\* without a binding, so that every container port of the map contributes at
\* least one entry; the entries are joined with ", " in map order.
StructuredPorts(p) ==
  /\ "NetworkSettings" \in DOMAIN p
  /\ p["NetworkSettings"].t = "dict"
  /\ "Ports" \in DOMAIN p["NetworkSettings"].v
  /\ p["NetworkSettings"].v["Ports"].t = "dict"

NoBinding(item) == item.bindings.t = "null" \/ item.bindings.v = <<>>

\* how many entries the port map asks for
RECURSIVE WantedCount(_)
WantedCount(items) ==
  IF items = <<>> THEN 0
  ELSE (IF NoBinding(items[1]) THEN 1 ELSE Len(items[1].bindings.v))
       + WantedCount(Tail(items))

\* the bindings of a container port that name a host port
NamedBindings(item) ==
  SelectSeq(item.bindings.v, LAMBDA b : "HostPort" \in DOMAIN b.v)

\* one entry per binding that names a host port, the bare port otherwise
RECURSIVE WantedEntries(_)
WantedEntries(items) ==
  IF items = <<>> THEN <<>>
  ELSE (IF NoBinding(items[1]) THEN <<items[1].port>>
        ELSE [i \in 1..Len(NamedBindings(items[1])) |->
                NamedBindings(items[1])[i].v["HostPort"].v
                  \o <<"-", ">">> \o items[1].port])
       \o WantedEntries(Tail(items))

AllNameHostPort(items) ==
  \A i \in 1..Len(items) :
    NoBinding(items[i])
    \/ \A j \in 1..Len(items[i].bindings.v) :
         "HostPort" \in DOMAIN items[i].bindings.v[j].v

\* the entries of a ports text
EntriesOf(text) ==
  IF text = <<>> THEN <<>>
  ELSE LET parts == Split(text, ",")
       IN [i \in 1..Len(parts) |-> LStrip(parts[i], " ")]

EndsWith(s, suffix) ==
  Len(suffix) <= Len(s)
  /\ SubSeq(s, Len(s) - Len(suffix) + 1, Len(s)) = suffix

C21_OneEntryPerBinding ==
  (fcPc = "done" /\ source = "inspect" /\ StructuredPorts(payload)
   /\ record.t = "record")
    => LET items == payload["NetworkSettings"].v["Ports"].v
           got == EntriesOf(record.v.ports.v)
       IN /\ Len(got) = WantedCount(items)
          /\ \A i \in 1..Len(items) :
               \E k \in 1..Len(got) : EndsWith(got[k], items[i].port)
          /\ AllNameHostPort(items)
               => record.v.ports = Str(JoinComma(WantedEntries(items)))

\* C21 as amended: one entry per binding that names a host port; a binding
\* without one is skipped, and only a container port that has no binding or
\* has a binding naming a host port contributes an entry.
C21_OneEntryPerNamedBinding ==
  (fcPc = "done" /\ source = "inspect" /\ StructuredPorts(payload)
   /\ record.t = "record")
    => LET items == payload["NetworkSettings"].v["Ports"].v
           got == EntriesOf(record.v.ports.v)
       IN /\ record.v.ports = Str(JoinComma(WantedEntries(items)))
          /\ \A i \in 1..Len(items) :
               (NoBinding(items[i]) \/ NamedBindings(items[i]) # <<>>)
                 => \E k \in 1..Len(got) : EndsWith(got[k], items[i].port)

\* a map of two ports reached: one without a binding, one with a binding
\* that names a host port and one that does not
C21_Witness ==
  /\ fcPc = "done" /\ source = "inspect" /\ StructuredPorts(payload)
  /\ record.t = "record"
  /\ LET items == payload["NetworkSettings"].v["Ports"].v
     IN /\ Len(items) = 2
        /\ NoBinding(items[1])
        /\ items[2].bindings = List(<<Bind4, BindNoPort>>)
        /\ record.v.ports
             = Str(items[1].port \o <<",", " ">> \o S_hostPort
                     \o <<"-", ">">> \o items[2].port)

\* ---------------------------------------------------------------- C22
\* C22: a log-stream reader thread that has ended, at end-of-stream and
\* after an exception alike, has put exactly one sentinel, as the last item
\* it put; a thread still running has put none; and the consumer waiting on
\* the queue of an ended reader finds an item in it.
SentinelPuts == {i \in 1..Len(puts) : puts[i].none}

C22_OneSentinelLast ==
  req = "stream"
    => /\ pPc = "done" => SentinelPuts = {Len(puts)}
       /\ pPc # "done" => SentinelPuts = {}
       /\ (pPc = "done" /\ gPc = "waiting")
            => \E i \in 1..Len(q) : q[i].none

\* the reader ended after an exception with chunks already put, the
\* consumer still waiting
C22_Witness ==
  /\ req = "stream" /\ streamHost = "local" /\ pPc = "done"
  /\ failure = "read" /\ gPc = "waiting"
  /\ Len(puts) = 4 /\ puts[3] = Item(ErrLocalLogs) /\ puts[4] = Sentinel

\* ---------------------------------------------------------------- C23
\* C23: remote restart_container, stop_container and start_container close
\* the SSH session and return only after the command they issued has
\* exited: once such a call has ended after issuing its command, the
\* command is not running any more.
C23_SessionClosedAfterCommandExit ==
  (/\ req = "op" /\ opName \in NoWaitOps /\ hostType = "ssh"
   /\ opPc = "ended" /\ opOutcome.kind = "return")
    => ~cmdRunning

\* ---------------------------------------------------------------- C24
\* C24: run_compose issues `up -d` only when the action is exactly "up" and
\* `down` for every other action value, also one that is neither "up" nor
\* "down"; the compose_action route hands the submitted action over as it
\* is and answers such a call like any other.
C24_DownUnlessExactlyUp ==
  (opName = "run_compose" /\ command # "")
    => /\ args.action = "up"
            => command = "cd " \o args.path \o " && docker-compose up -d"
       /\ args.action # "up"
            => command = "cd " \o args.path \o " && docker-compose down"
       /\ (opPc = "done" /\ opOutcome.kind = "return")
            => (routeResp.code = 200 /\ routeResp.status = "success")

\* a call with an action that is neither "up" nor "down" ran `down` and was
\* answered with success
C24_Witness ==
  /\ opName = "run_compose" /\ args.action = "restart" /\ opPc = "done"
  /\ command = "cd /srv/app && docker-compose down"
  /\ cmdExit = 0
  /\ routeResp.code = 200

====
